---- MODULE Spec2Model ----
(***************************************************************************)
(* Type-relation engine of ts-tapl-syakyo: the equi-recursive equality of  *)
(* rec.ts, the structural equality of recFunc.ts, and the substitution and *)
(* binder-aware equality of poly.ts.                                       *)
(*                                                                         *)
(* The functions are pure.  A call is one action: it draws its arguments   *)
(* from a bounded universe of types and records the outcome in `result`,   *)
(* which is Ret(v) for `return v` and Throw(m) for an exception m.  The     *)
(* type checkers take a term and the caller's environment object; `env` is *)
(* what that object holds after the call, and `scopeList` is what the      *)
(* caller's array of type-variable names holds after a call of the poly.ts *)
(* checker.                                                                *)
(***************************************************************************)
EXTENDS Integers, Sequences, FiniteSets, TLC

VARIABLES op, args, result, env, scopeList
vars == <<op, args, result, env, scopeList>>

\* ------------------------------------------------------------------ outcomes

Ret(v) == [ret |-> v]
Throw(m) == [throw |-> m]
IsThrow(r) == "throw" \in DOMAIN r
IsRet(r) == "ret" \in DOMAIN r

\* ------------------------------------------------------------------ bounds

\* JavaScript's call stack is finite: a recursion deeper than the limit throws
\* RangeError.  Only typeEqSub and unwrapRecType are charged a frame per call;
\* the other functions recurse on the structure of a finite tree.
StackLimit == 16

\* Number of nodes of the largest type drawn for a call on one type.
MaxSize == 4

\* Number of nodes of the largest type drawn for a call on two types.
MaxPairSize == 3

\* Depth to which the unfoldings of two types are compared.
UnfoldDepth == 6

\* Number of nodes of the largest poly.ts type drawn for a comparison.
MaxPolyPairSize == 3

\* Number of nodes of the largest target and of the largest replacement drawn
\* for a substitution.
MaxTargetSize == 4
MaxReplacementSize == 2

\* ------------------------------------------------------------------ rec.ts: types

boolean == [tag |-> "Boolean"]
number == [tag |-> "Number"]
param(name, type) == [name |-> name, type |-> type]
fn(params, retType) == [tag |-> "Func", params |-> params, retType |-> retType]
object(props) == [tag |-> "Object", props |-> props]
rec(name, recType) == [tag |-> "Rec", name |-> name, type |-> recType]
prop(name, type) == [name |-> name, type |-> type]
typeVar(name) == [tag |-> "TypeVar", name |-> name]

RECURSIVE expandType(_, _, _)

\* expandType substituting into the body of every Rec, whatever its name.
expandType_noRebinding(type, typeVarName, repType) ==
    CASE type.tag \in {"Boolean", "Number"} -> type
      [] type.tag = "Func" ->
            fn([i \in DOMAIN type.params |->
                    [name |-> type.params[i].name,
                     type |-> expandType(type.params[i].type, typeVarName, repType)]],
               expandType(type.retType, typeVarName, repType))
      [] type.tag = "Object" ->
            object([i \in DOMAIN type.props |->
                    [name |-> type.props[i].name,
                     type |-> expandType(type.props[i].type, typeVarName, repType)]])
      [] type.tag = "Rec" ->
            rec(type.name, expandType(type.type, typeVarName, repType))
      [] type.tag = "TypeVar" ->
            IF type.name = typeVarName THEN repType ELSE type

\* rec.ts 67-104.
expandType(type, typeVarName, repType) ==
    CASE type.tag \in {"Boolean", "Number"} -> type
      [] type.tag = "Func" ->
            fn([i \in DOMAIN type.params |->
                    [name |-> type.params[i].name,
                     type |-> expandType(type.params[i].type, typeVarName, repType)]],
               expandType(type.retType, typeVarName, repType))
      [] type.tag = "Object" ->
            object([i \in DOMAIN type.props |->
                    [name |-> type.props[i].name,
                     type |-> expandType(type.props[i].type, typeVarName, repType)]])
      [] type.tag = "Rec" ->
            IF type.name = typeVarName
            THEN type
            ELSE rec(type.name, expandType(type.type, typeVarName, repType))
      [] type.tag = "TypeVar" ->
            IF type.name = typeVarName THEN repType ELSE type

RECURSIVE unwrapRecType(_, _)

\* unwrapRecType returning the body of the Rec without replacing its variable.
unwrapRecType_noExpand(type, stack) ==
    IF stack = 0 THEN Throw("RangeError")
    ELSE IF type.tag = "Rec"
         THEN unwrapRecType(type.type, stack - 1)
         ELSE Ret(type)

\* rec.ts 106-113; `stack` is the number of frames left.
unwrapRecType(type, stack) ==
    IF stack = 0 THEN Throw("RangeError")
    ELSE IF type.tag = "Rec"
         THEN unwrapRecType(expandType(type.type, type.name, type), stack - 1)
         ELSE Ret(type)

\* typeVarMap[name] of a JavaScript object used as a map: undefined when absent.
EmptyMap == [n \in {} |-> ""]
MapPut(m, k, v) == [n \in DOMAIN m \cup {k} |-> IF n = k THEN v ELSE m[n]]

\* Array.prototype.find on a props array: the index of the first prop of that
\* name, 0 when there is none.
RECURSIVE findFrom(_, _, _)
findFrom(props, name, i) ==
    IF i > Len(props) THEN 0
    ELSE IF props[i].name = name THEN i
    ELSE findFrom(props, name, i + 1)
find(props, name) == findFrom(props, name, 1)

RECURSIVE typeEqNaive(_, _, _)
RECURSIVE typeEqNaiveParams(_, _, _, _)
RECURSIVE typeEqNaiveProps(_, _, _, _)

typeEqNaiveParams(type1, type2, typeVarMap, i) ==
    IF i > Len(type2.params)
    THEN typeEqNaive(type1.retType, type2.retType, typeVarMap)
    ELSE LET r == typeEqNaive(type1.params[i].type, type2.params[i].type, typeVarMap)
         IN  IF IsThrow(r) THEN r
             ELSE IF ~r.ret THEN Ret(FALSE)
             ELSE typeEqNaiveParams(type1, type2, typeVarMap, i + 1)

typeEqNaiveProps(type1, type2, typeVarMap, j) ==
    IF j > Len(type2.props) THEN Ret(TRUE)
    ELSE LET k == find(type1.props, type2.props[j].name)
         IN  IF k = 0 THEN Ret(FALSE)
             ELSE LET r == typeEqNaive(type1.props[k].type, type2.props[j].type, typeVarMap)
                  IN  IF IsThrow(r) THEN r
                      ELSE IF ~r.ret THEN Ret(FALSE)
                      ELSE typeEqNaiveProps(type1, type2, typeVarMap, j + 1)

typeEqNaive(type1, type2, typeVarMap) ==
    CASE type2.tag \in {"Boolean", "Number"} -> Ret(type1.tag = type2.tag)
      [] type2.tag = "Func" ->
            IF type1.tag # "Func" THEN Ret(FALSE)
            ELSE IF Len(type1.params) # Len(type2.params) THEN Ret(FALSE)
            ELSE typeEqNaiveParams(type1, type2, typeVarMap, 1)
      [] type2.tag = "Object" ->
            IF type1.tag # "Object" THEN Ret(FALSE)
            ELSE IF Len(type1.props) # Len(type2.props) THEN Ret(FALSE)
            ELSE typeEqNaiveProps(type1, type2, typeVarMap, 1)
      [] type2.tag = "Rec" ->
            IF type1.tag # "Rec" THEN Ret(FALSE)
            ELSE typeEqNaive(type1.type, type2.type,
                             MapPut(typeVarMap, type1.name, type2.name))
      [] type2.tag = "TypeVar" ->
            IF type1.tag # "TypeVar" THEN Ret(FALSE)
            ELSE IF type1.name \notin DOMAIN typeVarMap
                 THEN Throw("unknown type variable")
                 ELSE Ret(typeVarMap[type1.name] = type2.name)

\* hasSeen comparing the first types of the pairs only.
hasSeen_firstOnly(type1, type2, seen) ==
    IF \E i \in DOMAIN seen : typeEqNaive(seen[i][1], type1, EmptyMap) = Ret(TRUE)
    THEN Ret(TRUE)
    ELSE Ret(FALSE)

RECURSIVE hasSeenFrom(_, _, _, _)
hasSeenFrom(type1, type2, seen, i) ==
    IF i > Len(seen) THEN Ret(FALSE)
    ELSE LET r1 == typeEqNaive(seen[i][1], type1, EmptyMap)
         IN  IF IsThrow(r1) THEN r1
             ELSE IF ~r1.ret THEN hasSeenFrom(type1, type2, seen, i + 1)
             ELSE LET r2 == typeEqNaive(seen[i][2], type2, EmptyMap)
                  IN  IF IsThrow(r2) THEN r2
                      ELSE IF r2.ret THEN Ret(TRUE)
                      ELSE hasSeenFrom(type1, type2, seen, i + 1)
hasSeen(type1, type2, seen) == hasSeenFrom(type1, type2, seen, 1)

RECURSIVE typeEqSub(_, _, _, _)
RECURSIVE typeEqSubParams(_, _, _, _, _)
RECURSIVE typeEqSubProps(_, _, _, _, _)

\* rec.ts 228-236: the loop over the parameters, then the return types.
typeEqSubParams(type1, type2, seen, stack, i) ==
    IF i > Len(type2.params)
    THEN typeEqSub(type1.retType, type2.retType, seen, stack)
    ELSE LET r == typeEqSub(type1.params[i].type, type2.params[i].type, seen, stack)
         IN  IF IsThrow(r) THEN r
             ELSE IF ~r.ret THEN Ret(FALSE)
             ELSE typeEqSubParams(type1, type2, seen, stack, i + 1)

\* rec.ts 245-254: the loop over the props of type2.
typeEqSubProps(type1, type2, seen, stack, j) ==
    IF j > Len(type2.props) THEN Ret(TRUE)
    ELSE LET k == find(type1.props, type2.props[j].name)
         IN  IF k = 0 THEN Ret(FALSE)
             ELSE LET r == typeEqSub(type1.props[k].type, type2.props[j].type, seen, stack)
                  IN  IF IsThrow(r) THEN r
                      ELSE IF ~r.ret THEN Ret(FALSE)
                      ELSE typeEqSubProps(type1, type2, seen, stack, j + 1)

\* The Object case without the comparison of the numbers of props.
typeEqSubObject_noLength(type1, type2, seen, stack) ==
    IF type1.tag # "Object" THEN Ret(FALSE)
    ELSE typeEqSubProps(type1, type2, seen, stack, 1)

\* rec.ts 238-255: the Object case.
typeEqSubObject(type1, type2, seen, stack) ==
    IF type1.tag # "Object" THEN Ret(FALSE)
    ELSE IF Len(type1.props) # Len(type2.props) THEN Ret(FALSE)
    ELSE typeEqSubProps(type1, type2, seen, stack, 1)

\* The Func case that also compares the names of the parameters.
typeEqSubFunc_sameNames(type1, type2, seen, stack) ==
    IF type1.tag # "Func" THEN Ret(FALSE)
    ELSE IF Len(type1.params) # Len(type2.params) THEN Ret(FALSE)
    ELSE IF \E i \in DOMAIN type2.params : type1.params[i].name # type2.params[i].name
         THEN Ret(FALSE)
    ELSE typeEqSubParams(type1, type2, seen, stack, 1)

\* The Func case accepting a type1 with more parameters than type2.
typeEqSubFunc_moreParams(type1, type2, seen, stack) ==
    IF type1.tag # "Func" THEN Ret(FALSE)
    ELSE IF Len(type1.params) < Len(type2.params) THEN Ret(FALSE)
    ELSE typeEqSubParams(type1, type2, seen, stack, 1)

\* rec.ts 215-237: the Func case.
typeEqSubFunc(type1, type2, seen, stack) ==
    IF type1.tag # "Func" THEN Ret(FALSE)
    ELSE IF Len(type1.params) # Len(type2.params) THEN Ret(FALSE)
    ELSE typeEqSubParams(type1, type2, seen, stack, 1)

\* `stack` is the number of frames left for this call and the calls it makes.
typeEqSub(type1, type2, seen, stack) ==
    IF stack = 0 THEN Throw("RangeError")
    ELSE LET h == hasSeen(type1, type2, seen)
         IN  IF IsThrow(h) THEN h
             ELSE IF h.ret THEN Ret(TRUE)
             ELSE IF type1.tag = "Rec"
                  THEN LET u == unwrapRecType(type1, stack - 1)
                       IN  IF IsThrow(u) THEN u
                           ELSE typeEqSub(u.ret, type2,
                                          Append(seen, <<type1, type2>>), stack - 1)
             ELSE IF type2.tag = "Rec"
                  THEN LET u == unwrapRecType(type2, stack - 1)
                       IN  IF IsThrow(u) THEN u
                           ELSE typeEqSub(type1, u.ret,
                                          Append(seen, <<type1, type2>>), stack - 1)
             ELSE CASE type2.tag \in {"Boolean", "Number"} -> Ret(type1.tag = type2.tag)
                    [] type2.tag = "Func" -> typeEqSubFunc(type1, type2, seen, stack - 1)
                    [] type2.tag = "Object" -> typeEqSubObject(type1, type2, seen, stack - 1)
                    [] type2.tag = "TypeVar" -> Throw("unreachable")

\* rec.ts 199-263: the calls of typeEqSub made, directly or not, during
\* typeEqSub(type1, type2, seen); each with the arguments type1, type2 and
\* `caller` (the seen list) of the call that makes it and the seen list
\* `callee` that it passes.
RECURSIVE typeEqSubCalls(_, _, _, _)

\* The Rec cases passing a list that holds the new pair only.
typeEqSubCalls_freshList(type1, type2, seen, stack) ==
    LET Nested(t1, t2, seen2) ==
            {[type1 |-> type1, type2 |-> type2, caller |-> seen, callee |-> seen2]}
              \cup typeEqSubCalls(t1, t2, seen2, stack - 1)
        Passed(t1, t2) == typeEqSub(t1, t2, seen, stack - 1) = Ret(TRUE)
    IN  IF stack = 0 THEN {}
        ELSE IF hasSeen(type1, type2, seen) # Ret(FALSE) THEN {}
        ELSE IF type1.tag = "Rec"
             THEN LET u == unwrapRecType(type1, stack - 1)
                  IN  IF IsThrow(u) THEN {}
                      ELSE Nested(u.ret, type2, <<<<type1, type2>>>>)
        ELSE IF type2.tag = "Rec"
             THEN LET u == unwrapRecType(type2, stack - 1)
                  IN  IF IsThrow(u) THEN {}
                      ELSE Nested(type1, u.ret, <<<<type1, type2>>>>)
        ELSE IF type2.tag = "Func" /\ type1.tag = "Func"
                  /\ Len(type1.params) = Len(type2.params)
             THEN LET reached == {i \in DOMAIN type2.params :
                                     \A j \in 1..(i - 1) :
                                        Passed(type1.params[j].type, type2.params[j].type)}
                  IN  UNION {Nested(type1.params[i].type, type2.params[i].type, seen) :
                                i \in reached}
                        \cup (IF \A j \in DOMAIN type2.params :
                                    Passed(type1.params[j].type, type2.params[j].type)
                              THEN Nested(type1.retType, type2.retType, seen)
                              ELSE {})
        ELSE IF type2.tag = "Object" /\ type1.tag = "Object"
                  /\ Len(type1.props) = Len(type2.props)
             THEN LET Found(j) == find(type1.props, type2.props[j].name)
                      reached == {i \in DOMAIN type2.props :
                                     /\ Found(i) # 0
                                     /\ \A j \in 1..(i - 1) :
                                           /\ Found(j) # 0
                                           /\ Passed(type1.props[Found(j)].type,
                                                     type2.props[j].type)}
                  IN  UNION {Nested(type1.props[Found(i)].type, type2.props[i].type, seen) :
                                i \in reached}
        ELSE {}

typeEqSubCalls(type1, type2, seen, stack) ==
    LET Nested(t1, t2, seen2) ==
            {[type1 |-> type1, type2 |-> type2, caller |-> seen, callee |-> seen2]}
              \cup typeEqSubCalls(t1, t2, seen2, stack - 1)
        Passed(t1, t2) == typeEqSub(t1, t2, seen, stack - 1) = Ret(TRUE)
    IN  IF stack = 0 THEN {}
        ELSE IF hasSeen(type1, type2, seen) # Ret(FALSE) THEN {}
        ELSE IF type1.tag = "Rec"
             THEN LET u == unwrapRecType(type1, stack - 1)
                  IN  IF IsThrow(u) THEN {}
                      ELSE Nested(u.ret, type2, Append(seen, <<type1, type2>>))
        ELSE IF type2.tag = "Rec"
             THEN LET u == unwrapRecType(type2, stack - 1)
                  IN  IF IsThrow(u) THEN {}
                      ELSE Nested(type1, u.ret, Append(seen, <<type1, type2>>))
        ELSE IF type2.tag = "Func" /\ type1.tag = "Func"
                  /\ Len(type1.params) = Len(type2.params)
             THEN LET reached == {i \in DOMAIN type2.params :
                                     \A j \in 1..(i - 1) :
                                        Passed(type1.params[j].type, type2.params[j].type)}
                  IN  UNION {Nested(type1.params[i].type, type2.params[i].type, seen) :
                                i \in reached}
                        \cup (IF \A j \in DOMAIN type2.params :
                                    Passed(type1.params[j].type, type2.params[j].type)
                              THEN Nested(type1.retType, type2.retType, seen)
                              ELSE {})
        ELSE IF type2.tag = "Object" /\ type1.tag = "Object"
                  /\ Len(type1.props) = Len(type2.props)
             THEN LET Found(j) == find(type1.props, type2.props[j].name)
                      reached == {i \in DOMAIN type2.props :
                                     /\ Found(i) # 0
                                     /\ \A j \in 1..(i - 1) :
                                           /\ Found(j) # 0
                                           /\ Passed(type1.props[Found(j)].type,
                                                     type2.props[j].type)}
                  IN  UNION {Nested(type1.props[Found(i)].type, type2.props[i].type, seen) :
                                i \in reached}
        ELSE {}

typeEq_rec(type1, type2) == typeEqSub(type1, type2, <<>>, StackLimit)

\* ------------------------------------------------------------------ recFunc.ts

RECURSIVE typeEq_recFunc(_, _)
RECURSIVE typeEq_recFuncParams(_, _, _)
RECURSIVE typeEq_recFuncProps(_, _, _)

typeEq_recFuncParams(type1, type2, i) ==
    IF i > Len(type2.params)
    THEN typeEq_recFunc(type1.retType, type2.retType)
    ELSE IF ~typeEq_recFunc(type1.params[i].type, type2.params[i].type) THEN FALSE
    ELSE typeEq_recFuncParams(type1, type2, i + 1)

typeEq_recFuncProps(type1, type2, j) ==
    IF j > Len(type2.props) THEN TRUE
    ELSE LET k == find(type1.props, type2.props[j].name)
         IN  IF k = 0 THEN FALSE
             ELSE IF ~typeEq_recFunc(type1.props[k].type, type2.props[j].type) THEN FALSE
             ELSE typeEq_recFuncProps(type1, type2, j + 1)

\* recFunc.ts 65-82: the Object case.
typeEq_recFuncObject(type1, type2) ==
    IF type1.tag # "Object" THEN FALSE
    ELSE IF Len(type1.props) # Len(type2.props) THEN FALSE
    ELSE typeEq_recFuncProps(type1, type2, 1)

typeEq_recFunc(type1, type2) ==
    CASE type2.tag \in {"Boolean", "Number"} -> type1.tag = type2.tag
      [] type2.tag = "Func" ->
            IF type1.tag # "Func" THEN FALSE
            ELSE IF Len(type1.params) # Len(type2.params) THEN FALSE
            ELSE typeEq_recFuncParams(type1, type2, 1)
      [] type2.tag = "Object" -> typeEq_recFuncObject(type1, type2)

\* ------------------------------------------------------------------ poly.ts

typeAbs(typeParamNames, type) ==
    [tag |-> "TypeAbs", typeParams |-> typeParamNames, type |-> type]

RECURSIVE substitute(_, _, _)
substitute(targetType, typeVarName, concreteType) ==
    CASE targetType.tag \in {"Boolean", "Number"} -> targetType
      [] targetType.tag = "Func" ->
            fn([i \in DOMAIN targetType.params |->
                    [name |-> targetType.params[i].name,
                     type |-> substitute(targetType.params[i].type, typeVarName, concreteType)]],
               substitute(targetType.retType, typeVarName, concreteType))
      [] targetType.tag = "TypeAbs" ->
            typeAbs(targetType.typeParams,
                    substitute(targetType.type, typeVarName, concreteType))
      [] targetType.tag = "TypeVar" ->
            IF targetType.name = typeVarName THEN concreteType ELSE targetType

RECURSIVE typeEqRec(_, _, _)
RECURSIVE typeEqRecParams(_, _, _, _)

\* poly.ts 101-109: the loop over the parameters, then the return types.
typeEqRecParams(type1, type2, typeVarMap, i) ==
    IF i > Len(type2.params)
    THEN typeEqRec(type1.retType, type2.retType, typeVarMap)
    ELSE LET r == typeEqRec(type1.params[i].type, type2.params[i].type, typeVarMap)
         IN  IF IsThrow(r) THEN r
             ELSE IF ~r.ret THEN Ret(FALSE)
             ELSE typeEqRecParams(type1, type2, typeVarMap, i + 1)

\* poly.ts 119-122: newTypeVarMap[type1.typeParams[i]] = type2.typeParams[i],
\* for i = 1 .. Len(type1.typeParams), in that order.
RECURSIVE pairTypeParams(_, _, _, _)
pairTypeParams(typeVarMap, typeParams1, typeParams2, i) ==
    IF i > Len(typeParams1) THEN typeVarMap
    ELSE pairTypeParams(MapPut(typeVarMap, typeParams1[i], typeParams2[i]),
                        typeParams1, typeParams2, i + 1)

\* The TypeAbs case comparing the bodies under the caller's map, the bound
\* names left unpaired.
typeEqRecTypeAbs_noPairing(type1, type2, typeVarMap) ==
    IF type1.tag # "TypeAbs" THEN Ret(FALSE)
    ELSE IF Len(type1.typeParams) # Len(type2.typeParams) THEN Ret(FALSE)
    ELSE typeEqRec(type1.type, type2.type, typeVarMap)

\* The TypeAbs case rejecting only a type1 with more bound names than type2.
typeEqRecTypeAbs_arityGreater(type1, type2, typeVarMap) ==
    IF type1.tag # "TypeAbs" THEN Ret(FALSE)
    ELSE IF Len(type1.typeParams) > Len(type2.typeParams) THEN Ret(FALSE)
    ELSE typeEqRec(type1.type, type2.type,
                   pairTypeParams(typeVarMap, type1.typeParams, type2.typeParams, 1))

\* poly.ts 111-124: the TypeAbs case.
typeEqRecTypeAbs(type1, type2, typeVarMap) ==
    IF type1.tag # "TypeAbs" THEN Ret(FALSE)
    ELSE IF Len(type1.typeParams) # Len(type2.typeParams) THEN Ret(FALSE)
    ELSE typeEqRec(type1.type, type2.type,
                   pairTypeParams(typeVarMap, type1.typeParams, type2.typeParams, 1))

\* The TypeVar case looking the name of type1 up before testing its variant.
typeEqRecTypeVar_lookupFirst(type1, type2, typeVarMap) ==
    IF type1.tag # "TypeVar" \/ type1.name \notin DOMAIN typeVarMap
    THEN Throw("unknown type variable")
    ELSE Ret(TRUE)

\* poly.ts 125-133: the TypeVar case.
typeEqRecTypeVar(type1, type2, typeVarMap) ==
    IF type1.tag # "TypeVar" THEN Ret(FALSE)
    ELSE IF type1.name \notin DOMAIN typeVarMap
         THEN Throw("unknown type variable")
         ELSE Ret(TRUE)

typeEqRec(type1, type2, typeVarMap) ==
    CASE type2.tag \in {"Boolean", "Number"} -> Ret(type1.tag = type2.tag)
      [] type2.tag = "Func" ->
            IF type1.tag # "Func" THEN Ret(FALSE)
            ELSE IF Len(type1.params) # Len(type2.params) THEN Ret(FALSE)
            ELSE typeEqRecParams(type1, type2, typeVarMap, 1)
      [] type2.tag = "TypeAbs" -> typeEqRecTypeAbs(type1, type2, typeVarMap)
      [] type2.tag = "TypeVar" -> typeEqRecTypeVar(type1, type2, typeVarMap)

\* poly.ts 141-144: the reduce that maps every name of typeVars to itself.
RECURSIVE identityMap(_, _, _)
identityMap(typeVarMap, typeVars, i) ==
    IF i > Len(typeVars) THEN typeVarMap
    ELSE identityMap(MapPut(typeVarMap, typeVars[i], typeVars[i]), typeVars, i + 1)

typeEq_poly(type1, type2, typeVars) ==
    typeEqRec(type1, type2, identityMap(EmptyMap, typeVars, 1))

\* ------------------------------------------------------------------ universe of rec.ts types

RecNames == {"X", "Y"}
FieldNames == {"num", "rest"}

RECURSIVE RecTypesOfSize(_)
RecTypesOfSize(n) ==
    IF n = 1
    THEN {boolean, number} \cup {typeVar(v) : v \in RecNames}
    ELSE {rec(v, t) : v \in RecNames, t \in RecTypesOfSize(n - 1)}
         \cup {fn(<<>>, t) : t \in RecTypesOfSize(n - 1)}
         \cup {object(<<prop(f, t)>>) : f \in FieldNames, t \in RecTypesOfSize(n - 1)}
         \cup UNION {{fn(<<param("x", p)>>, t) :
                        p \in RecTypesOfSize(i), t \in RecTypesOfSize(n - 1 - i)} :
                     i \in 1..(n - 2)}
         \cup UNION {{object(<<prop(fg[1], t1), prop(fg[2], t2)>>) :
                        fg \in {x \in FieldNames \X FieldNames : x[1] # x[2]},
                        t1 \in RecTypesOfSize(i), t2 \in RecTypesOfSize(n - 1 - i)} :
                     i \in 1..(n - 2)}

RECURSIVE FreeVars(_)
FreeVars(t) ==
    CASE t.tag \in {"Boolean", "Number"} -> {}
      [] t.tag = "TypeVar" -> {t.name}
      [] t.tag = "Func" ->
            FreeVars(t.retType) \cup UNION {FreeVars(t.params[i].type) : i \in DOMAIN t.params}
      [] t.tag = "Object" -> UNION {FreeVars(t.props[i].type) : i \in DOMAIN t.props}
      [] t.tag = "Rec" -> FreeVars(t.type) \ {t.name}
      [] t.tag = "TypeAbs" -> FreeVars(t.type) \ {t.typeParams[i] : i \in DOMAIN t.typeParams}

Closed(t) == FreeVars(t) = {}

ClosedRecTypes(n) == {t \in UNION {RecTypesOfSize(k) : k \in 1..n} : Closed(t)}

\* The stream type of the rec test: Rec X. {num: Number, rest: () => X}.
NumStream ==
    rec("X", object(<<prop("num", number), prop("rest", fn(<<>>, typeVar("X")))>>))

RecTypes == ClosedRecTypes(MaxSize) \cup {NumStream}
RecPairTypes == ClosedRecTypes(MaxPairSize) \cup {NumStream}

RECURSIVE HasTag(_, _)
HasTag(t, tags) ==
    \/ t.tag \in tags
    \/ CASE t.tag = "Func" ->
              HasTag(t.retType, tags) \/ \E i \in DOMAIN t.params : HasTag(t.params[i].type, tags)
         [] t.tag = "Object" -> \E i \in DOMAIN t.props : HasTag(t.props[i].type, tags)
         [] t.tag \in {"Rec", "TypeAbs"} -> HasTag(t.type, tags)
         [] OTHER -> FALSE

\* The types of recFunc.ts: Boolean, Number, Func and Object only.
RecFuncTypes == {t \in RecPairTypes : ~HasTag(t, {"Rec", "TypeVar"})}

\* ------------------------------------------------------------------ calls

Init ==
    /\ op = "init"
    /\ args = <<>>
    /\ result = Ret(FALSE)
    /\ env = EmptyMap
    /\ scopeList = <<>>

\* rec.ts typeEq(type1, type2) on two closed types.
CallTypeEq_rec ==
    /\ op = "init"
    /\ UNCHANGED <<env, scopeList>>
    /\ \E t1 \in RecPairTypes, t2 \in RecPairTypes :
          /\ op' = "typeEq_rec"
          /\ args' = <<t1, t2>>
          /\ result' = typeEq_rec(t1, t2)

\* rec.ts typeEq(t, t) on one closed type.
CallTypeEqSelf_rec ==
    /\ op = "init"
    /\ UNCHANGED <<env, scopeList>>
    /\ \E t \in RecTypes :
          /\ op' = "typeEq_rec"
          /\ args' = <<t, t>>
          /\ result' = typeEq_rec(t, t)

\* rec.ts unwrapRecType(type) on one closed type.
CallUnwrapRecType ==
    /\ op = "init"
    /\ UNCHANGED <<env, scopeList>>
    /\ \E t \in RecTypes :
          /\ op' = "unwrapRecType"
          /\ args' = <<t>>
          /\ result' = unwrapRecType(t, StackLimit)

\* recFunc.ts typeEq(type1, type2).
CallTypeEq_recFunc ==
    /\ op = "init"
    /\ UNCHANGED <<env, scopeList>>
    /\ \E t1 \in RecFuncTypes, t2 \in RecFuncTypes :
          /\ op' = "typeEq_recFunc"
          /\ args' = <<t1, t2>>
          /\ result' = Ret(typeEq_recFunc(t1, t2))

\* rec.ts typeEq on a closed Rec type and its unfolding, in either order.
CallTypeEqUnfolding ==
    /\ op = "init"
    /\ UNCHANGED <<env, scopeList>>
    /\ \E r \in {t \in RecTypes : t.tag = "Rec"}, swap \in BOOLEAN :
          LET u == expandType(r.type, r.name, r)
              t1 == IF swap THEN u ELSE r
              t2 == IF swap THEN r ELSE u
          IN  /\ op' = "typeEq_rec"
              /\ args' = <<t1, t2>>
              /\ result' = typeEq_rec(t1, t2)

NextRec ==
    \/ CallTypeEq_rec
    \/ CallTypeEqSelf_rec
    \/ CallTypeEqUnfolding
    \/ CallUnwrapRecType
    \/ CallTypeEq_recFunc

SpecRec == Init /\ [][NextRec]_vars

\* ------------------------------------------------------------------ universe of poly.ts types

PolyNames == {"T", "U"}

\* typeParams of one TypeAbs: pairwise distinct names.
BinderLists == {<<"T">>, <<"U">>, <<"T", "U">>, <<"U", "T">>}

RECURSIVE PolyTypesOfSize(_)
PolyTypesOfSize(n) ==
    IF n = 1
    THEN {number} \cup {typeVar(v) : v \in PolyNames}
    ELSE {typeAbs(ps, t) : ps \in BinderLists, t \in PolyTypesOfSize(n - 1)}
         \cup UNION {{fn(<<param("x", p)>>, t) :
                        p \in PolyTypesOfSize(i), t \in PolyTypesOfSize(n - 1 - i)} :
                     i \in 1..(n - 2)}

PolyTypesUpTo(n) == UNION {PolyTypesOfSize(k) : k \in 1..n}

\* <T>(x: T) => T and its renamings, of the typeEqRec tests.
IdAbs(ps, v) == typeAbs(ps, fn(<<param("x", typeVar(v))>>, typeVar(v)))

\* <T, U>(x: U) => T.
SwapAbs(ps, v, w) == typeAbs(ps, fn(<<param("x", typeVar(v))>>, typeVar(w)))

\* (arg1: T, arg2: <T>(x: T) => boolean) => boolean, of the shadowing test.
ShadowTarget ==
    fn(<<param("arg1", typeVar("T")),
         param("arg2", typeAbs(<<"T">>, fn(<<param("x", typeVar("T"))>>, boolean)))>>,
       boolean)

\* (arg1: T, arg2: <U>(x: T, y: U) => boolean) => boolean, of the capture test.
CaptureTarget ==
    fn(<<param("arg1", typeVar("T")),
         param("arg2", typeAbs(<<"U">>,
                               fn(<<param("x", typeVar("T")), param("y", typeVar("U"))>>,
                                  boolean)))>>,
       boolean)

PolyExamples ==
    {boolean,
     IdAbs(<<"T">>, "T"), IdAbs(<<"U">>, "U"), IdAbs(<<"T", "U">>, "T"),
     IdAbs(<<"U", "T">>, "U"), SwapAbs(<<"U", "T">>, "T", "U")}

PolyPairTypes == PolyTypesUpTo(MaxPolyPairSize) \cup PolyExamples
PolyTargets == PolyTypesUpTo(MaxTargetSize) \cup PolyExamples \cup {ShadowTarget, CaptureTarget}
PolyReplacements == PolyTypesUpTo(MaxReplacementSize) \cup {boolean}

\* Every binding map over the names: a partial function from names to names.
PolyMaps == UNION {[D -> PolyNames] : D \in SUBSET PolyNames}

\* The lists of in-scope type variables the driver passes to typeEq.
TypeVarLists == {<<>>, <<"T">>, <<"U">>, <<"T", "U">>}

\* poly.ts typeEqRec(type1, type2, typeVarMap).
CallTypeEqRec ==
    /\ op = "init"
    /\ UNCHANGED <<env, scopeList>>
    /\ \E t1 \in PolyPairTypes, t2 \in PolyPairTypes, m \in PolyMaps :
          /\ op' = "typeEqRec"
          /\ args' = <<t1, t2, m>>
          /\ result' = typeEqRec(t1, t2, m)

\* poly.ts typeEq(type1, type2, typeVars).
CallTypeEq_poly ==
    /\ op = "init"
    /\ UNCHANGED <<env, scopeList>>
    /\ \E t1 \in PolyPairTypes, t2 \in PolyPairTypes, tvs \in TypeVarLists :
          /\ op' = "typeEq_poly"
          /\ args' = <<t1, t2, tvs>>
          /\ result' = typeEq_poly(t1, t2, tvs)

NextPolyEq ==
    \/ CallTypeEqRec
    \/ CallTypeEq_poly

SpecPolyEq == Init /\ [][NextPolyEq]_vars

\* Number of nodes of the largest type, closed or not, that typeEqNaive is
\* called with.
MaxOpenSize == 2

\* Types with free type variables too, as a recursive call of typeEqNaive
\* receives them.
OpenRecTypes ==
    UNION {RecTypesOfSize(k) : k \in 1..MaxOpenSize}
      \cup {NumStream,
            fn(<<param("x", typeVar("X"))>>, typeVar("X")),
            fn(<<param("x", number)>>, typeVar("X")),
            object(<<prop("num", number), prop("rest", typeVar("X"))>>),
            rec("X", fn(<<param("x", typeVar("Y"))>>, typeVar("X")))}

\* Every binding map over the names: a partial function from names to names.
RecMaps == UNION {[D -> RecNames] : D \in SUBSET RecNames}

\* rec.ts typeEqNaive(type1, type2, typeVarMap).
CallTypeEqNaive ==
    /\ op = "init"
    /\ UNCHANGED <<env, scopeList>>
    /\ \E t1 \in OpenRecTypes, t2 \in OpenRecTypes, m \in RecMaps :
          /\ op' = "typeEqNaive"
          /\ args' = <<t1, t2, m>>
          /\ result' = typeEqNaive(t1, t2, m)

\* rec.ts expandType(type, typeVarName, repType): the types, closed or not, of
\* OpenRecTypes and the Rec types among them inside a function or a record.
CallExpandType ==
    /\ op = "init"
    /\ UNCHANGED <<env, scopeList>>
    /\ \E t \in OpenRecTypes
                 \cup {fn(<<param("x", number)>>, r) : r \in {o \in OpenRecTypes : o.tag = "Rec"}}
                 \cup {object(<<prop("num", r)>>) : r \in {o \in OpenRecTypes : o.tag = "Rec"}}
                 \cup {rec(n, r) : n \in RecNames, r \in {o \in OpenRecTypes : o.tag = "Rec"}},
          v \in RecNames,
          r \in {number, typeVar("Y"), NumStream, rec("X", typeVar("X"))} :
          /\ op' = "expandType"
          /\ args' = <<t, v, r>>
          /\ result' = Ret(expandType(t, v, r))

NextExpand == CallExpandType

SpecExpand == Init /\ [][NextExpand]_vars

\* The equalities of the three checkers, each on pairs of types.
NextSym ==
    \/ CallTypeEq_recFunc
    \/ CallTypeEq_rec
    \/ CallTypeEqRec

SpecSym == Init /\ [][NextSym]_vars

\* The two equalities that take a binding map.
NextEqMap ==
    \/ CallTypeEqRec
    \/ CallTypeEqNaive

SpecEqMap == Init /\ [][NextEqMap]_vars

\* poly.ts substitute(targetType, typeVarName, concreteType).
CallSubstitute ==
    /\ op = "init"
    /\ UNCHANGED <<env, scopeList>>
    /\ \E target \in PolyTargets, v \in PolyNames, r \in PolyReplacements :
          /\ op' = "substitute"
          /\ args' = <<target, v, r>>
          /\ result' = Ret(substitute(target, v, r))

NextSubst == CallSubstitute

SpecSubst == Init /\ [][NextSubst]_vars

\* ------------------------------------------------------------------ function types with named parameters

ParamNames == {"x", "y"}

\* The names of the parameters of one function type.
ParamNameLists == {<<>>, <<"x">>, <<"y">>, <<"x", "y">>, <<"y", "x">>}

\* Every function type over the parameter and return types of S.
NamedFuncs(S) ==
    UNION {{fn([i \in 1..Len(ns) |-> param(ns[i], ts[i])], r) :
               ts \in [1..Len(ns) -> S], r \in S} :
           ns \in ParamNameLists}

\* Function types taking and returning function types.
NestedFuncs(S) ==
    {fn(<<param(n, f)>>, g) : n \in ParamNames, f \in NamedFuncs(S), g \in NamedFuncs(S)}

FuncEqTypes_rec ==
    LET S == {number, boolean, NumStream}
    IN  S \cup NamedFuncs(S) \cup NestedFuncs({number})
          \cup {rec("X", fn(<<param(n, typeVar("X"))>>, number)) : n \in ParamNames}

FuncEqTypes_poly ==
    LET S == {number, typeVar("T")}
    IN  S \cup NamedFuncs(S) \cup NestedFuncs({number})
          \cup {typeAbs(<<"T">>, fn(<<param(n, typeVar("T"))>>, typeVar("T"))) : n \in ParamNames}

\* rec.ts typeEq(type1, type2) on function types with named parameters.
CallFuncEq_rec ==
    /\ op = "init"
    /\ UNCHANGED <<env, scopeList>>
    /\ \E t1 \in FuncEqTypes_rec, t2 \in FuncEqTypes_rec :
          /\ op' = "typeEq_rec"
          /\ args' = <<t1, t2>>
          /\ result' = typeEq_rec(t1, t2)

\* poly.ts typeEqRec(type1, type2, typeVarMap) on function types with named
\* parameters.
CallFuncEq_poly ==
    /\ op = "init"
    /\ UNCHANGED <<env, scopeList>>
    /\ \E t1 \in FuncEqTypes_poly, t2 \in FuncEqTypes_poly, m \in PolyMaps :
          /\ op' = "typeEqRec"
          /\ args' = <<t1, t2, m>>
          /\ result' = typeEqRec(t1, t2, m)

NextFuncEq ==
    \/ CallFuncEq_rec
    \/ CallFuncEq_poly

SpecFuncEq == Init /\ [][NextFuncEq]_vars

\* ------------------------------------------------------------------ sub.ts

\* Number of props of the largest generated Object type and object literal.
MaxProps == 2

RECURSIVE subtype(_, _)
RECURSIVE subtypeProps(_, _, _)
RECURSIVE subtypeParams(_, _, _)

\* Every field of sup has a same-named field in sub whose type is a subtype.
subtypeProps(sub, sup, j) ==
    IF j > Len(sup.props) THEN TRUE
    ELSE LET k == find(sub.props, sup.props[j].name)
         IN  IF k = 0 THEN FALSE
             ELSE IF ~subtype(sub.props[k].type, sup.props[j].type) THEN FALSE
             ELSE subtypeProps(sub, sup, j + 1)

\* Every parameter type of sup is a subtype of the parameter type of sub at
\* the same position, and the return type of sub is a subtype of that of sup.
subtypeParams(sub, sup, i) ==
    IF i > Len(sup.params) THEN subtype(sub.retType, sup.retType)
    ELSE IF ~subtype(sup.params[i].type, sub.params[i].type) THEN FALSE
    ELSE subtypeParams(sub, sup, i + 1)

\* The Object case requiring the same number of props, as equality does.
subtypeObject_sameLength(sub, sup) ==
    IF sub.tag # "Object" THEN FALSE
    ELSE IF Len(sub.props) # Len(sup.props) THEN FALSE
    ELSE subtypeProps(sub, sup, 1)

\* The Object case: width subtyping.
subtypeObject(sub, sup) ==
    IF sub.tag # "Object" THEN FALSE
    ELSE subtypeProps(sub, sup, 1)

\* The Func case comparing the parameter types in the direction of the call.
subtypeFunc_covariantParams(sub, sup) ==
    IF sub.tag # "Func" THEN FALSE
    ELSE IF Len(sub.params) # Len(sup.params) THEN FALSE
    ELSE /\ \A i \in DOMAIN sup.params : subtype(sub.params[i].type, sup.params[i].type)
         /\ subtype(sub.retType, sup.retType)

\* The Func case: contravariant parameters, covariant return.
subtypeFunc(sub, sup) ==
    IF sub.tag # "Func" THEN FALSE
    ELSE IF Len(sub.params) # Len(sup.params) THEN FALSE
    ELSE subtypeParams(sub, sup, 1)

\* subtype(sub, sup) of sub.ts, whose types are Boolean, Number, Func and
\* Object.
subtype(sub, sup) ==
    CASE sup.tag \in {"Boolean", "Number"} -> sub.tag = sup.tag
      [] sup.tag = "Func" -> subtypeFunc(sub, sup)
      [] sup.tag = "Object" -> subtypeObject(sub, sup)

\* The call rule of the sub checker on the type of the callee and the types
\* of the arguments.
RECURSIVE typecheckCallArgs_sub(_, _, _)
typecheckCallArgs_sub(funcType, argTypes, i) ==
    IF i > Len(argTypes) THEN Ret(funcType.retType)
    ELSE IF ~subtype(argTypes[i], funcType.params[i].type)
         THEN Throw("argument type mismatch")
         ELSE typecheckCallArgs_sub(funcType, argTypes, i + 1)

typecheckCall_sub(funcType, argTypes) ==
    IF funcType.tag # "Func" THEN Throw("function expected")
    ELSE IF Len(argTypes) # Len(funcType.params) THEN Throw("wrong number of arguments")
    ELSE typecheckCallArgs_sub(funcType, argTypes, 1)

SubFieldNames == {"foo", "bar", "baz"}

\* The names of the props of one Object type: pairwise distinct.
PropNameLists(n) ==
    {ns \in UNION {[1..k -> SubFieldNames] : k \in 1..n} :
        \A i \in DOMAIN ns, j \in DOMAIN ns : i # j => ns[i] # ns[j]}

\* Every Object type of at most n props with the prop types of S.
Records(S, n) ==
    UNION {{object([i \in 1..Len(ns) |-> prop(ns[i], ts[i])]) : ts \in [1..Len(ns) -> S]} :
           ns \in PropNameLists(n)}

SubLeaves == {number, boolean}

\* {foo: number, bar: boolean, baz: boolean} and {foo: number, bar: boolean},
\* of the covariance test.
FooBarBaz ==
    object(<<prop("foo", number), prop("bar", boolean), prop("baz", boolean)>>)
FooBar == object(<<prop("foo", number), prop("bar", boolean)>>)
Foo == object(<<prop("foo", number)>>)

SubRecords == Records(SubLeaves, MaxProps) \cup {FooBarBaz}

SubTypes ==
    SubLeaves \cup SubRecords
      \cup {object(<<prop("foo", r)>>) : r \in SubRecords}
      \cup {fn(<<>>, r) : r \in SubLeaves \cup SubRecords}
      \cup {fn(<<param("x", p)>>, r) : p \in SubRecords, r \in SubLeaves}
      \cup {fn(<<param("x", p), param("y", q)>>, number) :
               p \in Records(SubLeaves, 1), q \in SubLeaves}

\* The callees: functions that take one function or one record, a function
\* without parameters, and a number.
SubCallees ==
    {fn(<<param("x", p)>>, number) :
        p \in {t \in SubTypes : t.tag = "Func"} \cup Records(SubLeaves, 1)}
      \cup {fn(<<>>, number), number}

\* sub.ts subtype(sub, sup).
CallSubtype ==
    /\ op = "init"
    /\ UNCHANGED <<env, scopeList>>
    /\ \E t1 \in SubTypes, t2 \in SubTypes :
          /\ op' = "subtype"
          /\ args' = <<t1, t2>>
          /\ result' = Ret(subtype(t1, t2))

\* The call rule of the sub checker: a callee of type f applied to one
\* argument of type a.
CallTypecheckCall_sub ==
    /\ op = "init"
    /\ UNCHANGED <<env, scopeList>>
    /\ \E f \in SubCallees, a \in SubTypes :
          /\ op' = "typecheckCall_sub"
          /\ args' = <<f, <<a>>>>
          /\ result' = typecheckCall_sub(f, <<a>>)

NextSub ==
    \/ CallSubtype
    \/ CallTypecheckCall_sub

SpecSub == Init /\ [][NextSub]_vars

\* ------------------------------------------------------------------ terms

\* func.retType of a function term without a declared return type.
undefined == [tag |-> "undefined"]

TmTrue == [tag |-> "true"]
TmFalse == [tag |-> "false"]
TmNumber == [tag |-> "number"]
TmAdd(left, right) == [tag |-> "add", left |-> left, right |-> right]
TmIf(cond, thn, els) == [tag |-> "if", cond |-> cond, thn |-> thn, els |-> els]
TmVar(name) == [tag |-> "var", name |-> name]
TmFunc(params, retType, body) ==
    [tag |-> "func", params |-> params, retType |-> retType, body |-> body]
TmCall(func, callArgs) == [tag |-> "call", func |-> func, args |-> callArgs]
TmSeq(body, rest) == [tag |-> "seq", body |-> body, rest |-> rest]
TmConst(name, init, rest) == [tag |-> "const", name |-> name, init |-> init, rest |-> rest]
TmObjectNew(props) == [tag |-> "objectNew", props |-> props]
TmObjectGet(obj, propName) == [tag |-> "objectGet", obj |-> obj, propName |-> propName]
TmRecFunc(funcName, params, retType, body, rest) ==
    [tag |-> "recFunc", funcName |-> funcName, params |-> params, retType |-> retType,
     body |-> body, rest |-> rest]
propTerm(name, term) == [name |-> name, term |-> term]

\* The outcome of typecheck(t, typeEnv) and what the object typeEnv holds
\* after the call.
Out(res, typeEnv) == [res |-> res, typeEnv |-> typeEnv]

\* newTypeEnv[param.name] = param.type for every param, in order.
RECURSIVE bindParams(_, _, _)
bindParams(newTypeEnv, params, i) ==
    IF i > Len(params) THEN newTypeEnv
    ELSE bindParams(MapPut(newTypeEnv, params[i].name, params[i].type), params, i + 1)

\* TypeEnv.clone: another object with the same bindings.
TypeEnv_clone(typeEnv) == typeEnv

\* TypeEnv.defineMut of basic2: sets the binding in the object it is given and
\* returns that object.  `typeEnv` is the argument object after the call,
\* `newTypeEnv` the returned object, `same` whether they are one object.
TypeEnv_defineMut(typeEnv, name, type) ==
    [typeEnv |-> MapPut(typeEnv, name, type),
     newTypeEnv |-> MapPut(typeEnv, name, type),
     same |-> TRUE]

\* TypeEnv.define setting the binding in the object it is given.
TypeEnv_define_inPlace(typeEnv, name, type) ==
    [typeEnv |-> MapPut(typeEnv, name, type),
     newTypeEnv |-> MapPut(typeEnv, name, type),
     same |-> TRUE]

\* TypeEnv.define keeping the binding a name already has.
TypeEnv_define_keepFirst(typeEnv, name, type) ==
    [typeEnv |-> typeEnv,
     newTypeEnv |-> IF name \in DOMAIN typeEnv THEN TypeEnv_clone(typeEnv)
                    ELSE MapPut(TypeEnv_clone(typeEnv), name, type),
     same |-> FALSE]

\* TypeEnv.define: sets the binding in a clone and returns the clone.
TypeEnv_define(typeEnv, name, type) ==
    [typeEnv |-> typeEnv,
     newTypeEnv |-> MapPut(TypeEnv_clone(typeEnv), name, type),
     same |-> FALSE]

\* TypeEnv.define for every param, in order, each on the object the previous
\* one returned.
RECURSIVE defineParams(_, _, _)
defineParams(typeEnv, params, i) ==
    IF i > Len(params) THEN typeEnv
    ELSE defineParams(TypeEnv_define(typeEnv, params[i].name, params[i].type).newTypeEnv,
                      params, i + 1)

\* ------------------------------------------------------------------ rec.ts: typecheck

RECURSIVE typecheck_rec(_, _)
RECURSIVE typecheckArgs_rec(_, _, _, _)
RECURSIVE typecheckProps_rec(_, _, _, _)

\* rec.ts 409-414: the loop over the arguments of a call.
typecheckArgs_rec(t, funcType, typeEnv, i) ==
    IF i > Len(t.args) THEN Out(Ret(funcType.retType), typeEnv)
    ELSE LET arg == typecheck_rec(t.args[i], typeEnv)
         IN  IF IsThrow(arg.res) THEN arg
             ELSE LET e == typeEq_rec(arg.res.ret, funcType.params[i].type)
                  IN  IF IsThrow(e) THEN Out(e, arg.typeEnv)
                      ELSE IF ~e.ret
                           THEN Out(Throw("argument type mismatch"), arg.typeEnv)
                      ELSE typecheckArgs_rec(t, funcType, arg.typeEnv, i + 1)

\* rec.ts 426-432, the objectNew case: the map over the props, `props` the
\* array built so far.
typecheckProps_rec(t, typeEnv, i, props) ==
    IF i > Len(t.props) THEN Out(Ret(object(props)), typeEnv)
    ELSE LET p == typecheck_rec(t.props[i].term, typeEnv)
         IN  IF IsThrow(p.res) THEN p
             ELSE typecheckProps_rec(t, p.typeEnv, i + 1,
                                     Append(props, prop(t.props[i].name, p.res.ret)))

\* rec.ts 433-447, the objectGet case.
typecheckObjectGet_rec(t, typeEnv) ==
    LET obj == typecheck_rec(t.obj, typeEnv)
    IN  IF IsThrow(obj.res) THEN obj
        ELSE LET objType == unwrapRecType(obj.res.ret, StackLimit)
             IN  IF IsThrow(objType) THEN Out(objType, obj.typeEnv)
                 ELSE IF objType.ret.tag # "Object"
                      THEN Out(Throw("object expected"), obj.typeEnv)
                 ELSE LET k == find(objType.ret.props, t.propName)
                      IN  IF k = 0 THEN Out(Throw("Unknown property"), obj.typeEnv)
                          ELSE Out(Ret(objType.ret.props[k].type), obj.typeEnv)

\* rec.ts 448-474, the recFunc case: both environments are built from
\* clones of typeEnv; error() of tiny-ts-parser throws.
typecheckRecFunc_rec(t, typeEnv) ==
    LET funcType == fn(t.params, t.retType)
        newTypeEnvInnerFunc ==
            defineParams(TypeEnv_define(TypeEnv_clone(typeEnv), t.funcName, funcType).newTypeEnv,
                         t.params, 1)
        body == typecheck_rec(t.body, newTypeEnvInnerFunc)
    IN  IF IsThrow(body.res) THEN Out(body.res, typeEnv)
        ELSE LET e == typeEq_rec(t.retType, body.res.ret)
             IN  IF IsThrow(e) THEN Out(e, typeEnv)
                 ELSE IF ~e.ret THEN Out(Throw("wrong return type"), typeEnv)
                 ELSE LET newTypeEnvOuterFunc ==
                              TypeEnv_define(TypeEnv_clone(typeEnv), t.funcName,
                                             funcType).newTypeEnv
                          rest == typecheck_rec(t.rest, newTypeEnvOuterFunc)
                      IN  Out(rest.res, typeEnv)

\* rec.ts 351-478: the outcome and what the object typeEnv holds after the call.
typecheck_rec(t, typeEnv) ==
    CASE t.tag \in {"true", "false"} -> Out(Ret(boolean), typeEnv)
      [] t.tag = "number" -> Out(Ret(number), typeEnv)
      \* 361-371
      [] t.tag = "add" ->
            LET left == typecheck_rec(t.left, typeEnv)
            IN  IF IsThrow(left.res) THEN left
                ELSE LET ul == unwrapRecType(left.res.ret, StackLimit)
                     IN  IF IsThrow(ul) THEN Out(ul, left.typeEnv)
                         ELSE IF ul.ret.tag # "Number"
                              THEN Out(Throw("number expected"), left.typeEnv)
                         ELSE LET right == typecheck_rec(t.right, left.typeEnv)
                              IN  IF IsThrow(right.res) THEN right
                                  ELSE LET ur == unwrapRecType(right.res.ret, StackLimit)
                                       IN  IF IsThrow(ur) THEN Out(ur, right.typeEnv)
                                           ELSE IF ur.ret.tag # "Number"
                                                THEN Out(Throw("number expected"), right.typeEnv)
                                           ELSE Out(Ret(number), right.typeEnv)
      \* 372-383
      [] t.tag = "if" ->
            LET cond == typecheck_rec(t.cond, typeEnv)
            IN  IF IsThrow(cond.res) THEN cond
                ELSE LET then == typecheck_rec(t.thn, cond.typeEnv)
                     IN  IF IsThrow(then.res) THEN then
                         ELSE LET elseTerm == typecheck_rec(t.els, then.typeEnv)
                              IN  IF IsThrow(elseTerm.res) THEN elseTerm
                                  ELSE LET u1 == unwrapRecType(then.res.ret, StackLimit)
                                           u2 == unwrapRecType(elseTerm.res.ret, StackLimit)
                                       IN  IF IsThrow(u1) THEN Out(u1, elseTerm.typeEnv)
                                           ELSE IF IsThrow(u2) THEN Out(u2, elseTerm.typeEnv)
                                           ELSE IF u1.ret.tag # u2.ret.tag
                                                THEN Out(Throw("branches must have the same type"),
                                                         elseTerm.typeEnv)
                                           ELSE Out(then.res, elseTerm.typeEnv)
      \* 384-389
      [] t.tag = "var" ->
            IF t.name \notin DOMAIN typeEnv
            THEN Out(Throw("Unknown variable"), typeEnv)
            ELSE Out(Ret(typeEnv[t.name]), typeEnv)
      \* 390-400: the body is checked in a copy of typeEnv; error() of
      \* tiny-ts-parser throws
      [] t.tag = "func" ->
            LET newTypeEnv == bindParams(typeEnv, t.params, 1)
                body == typecheck_rec(t.body, newTypeEnv)
            IN  IF IsThrow(body.res) THEN Out(body.res, typeEnv)
                ELSE IF t.retType = undefined
                     THEN Out(Ret(fn(t.params, body.res.ret)), typeEnv)
                ELSE LET e == typeEq_rec(t.retType, body.res.ret)
                     IN  IF IsThrow(e) THEN Out(e, typeEnv)
                         ELSE IF ~e.ret THEN Out(Throw("wrong return type"), typeEnv)
                         ELSE Out(Ret(fn(t.params, body.res.ret)), typeEnv)
      \* 401-416
      [] t.tag = "call" ->
            LET func == typecheck_rec(t.func, typeEnv)
            IN  IF IsThrow(func.res) THEN func
                ELSE LET funcType == unwrapRecType(func.res.ret, StackLimit)
                     IN  IF IsThrow(funcType) THEN Out(funcType, func.typeEnv)
                         ELSE IF funcType.ret.tag # "Func"
                              THEN Out(Throw("function expected"), func.typeEnv)
                         ELSE IF Len(t.args) # Len(funcType.ret.params)
                              THEN Out(Throw("wrong number of arguments"), func.typeEnv)
                         ELSE typecheckArgs_rec(t, funcType.ret, func.typeEnv, 1)
      \* 417-420
      [] t.tag = "seq" ->
            LET body == typecheck_rec(t.body, typeEnv)
            IN  IF IsThrow(body.res) THEN body
                ELSE typecheck_rec(t.rest, body.typeEnv)
      \* 421-425
      [] t.tag = "const" ->
            LET init == typecheck_rec(t.init, typeEnv)
            IN  IF IsThrow(init.res) THEN init
                ELSE LET d == TypeEnv_define(init.typeEnv, t.name, init.res.ret)
                         rest == typecheck_rec(t.rest, d.newTypeEnv)
                     IN  Out(rest.res, IF d.same THEN rest.typeEnv ELSE d.typeEnv)
      [] t.tag = "objectNew" -> typecheckProps_rec(t, typeEnv, 1, <<>>)
      [] t.tag = "objectGet" -> typecheckObjectGet_rec(t, typeEnv)
      [] t.tag = "recFunc" -> typecheckRecFunc_rec(t, typeEnv)

\* ------------------------------------------------------------------ recFunc.ts: typecheck

RECURSIVE typecheck_recFunc(_, _)
RECURSIVE typecheckArgs_recFunc(_, _, _, _)

\* recFunc.ts 224-229: the loop over the arguments of a call.
typecheckArgs_recFunc(t, funcType, typeEnv, i) ==
    IF i > Len(t.args) THEN Out(Ret(funcType.retType), typeEnv)
    ELSE LET arg == typecheck_recFunc(t.args[i], typeEnv)
         IN  IF IsThrow(arg.res) THEN arg
             ELSE IF ~typeEq_recFunc(arg.res.ret, funcType.params[i].type)
                  THEN Out(Throw("argument type mismatch"), arg.typeEnv)
             ELSE typecheckArgs_recFunc(t, funcType, arg.typeEnv, i + 1)

\* The recFunc case checking `rest` in the environment of the body.
typecheckRecFunc_recFunc_paramsInRest(t, typeEnv) ==
    LET funcType == fn(t.params, t.retType)
        newTypeEnvInnerFunc ==
            defineParams(TypeEnv_define(TypeEnv_clone(typeEnv), t.funcName, funcType).newTypeEnv,
                         t.params, 1)
        body == typecheck_recFunc(t.body, newTypeEnvInnerFunc)
    IN  IF IsThrow(body.res) THEN Out(body.res, typeEnv)
        ELSE IF ~typeEq_recFunc(t.retType, body.res.ret)
             THEN Out(Throw("wrong return type"), typeEnv)
        ELSE LET rest == typecheck_recFunc(t.rest, newTypeEnvInnerFunc)
             IN  Out(rest.res, typeEnv)

\* recFunc.ts 241-265, the recFunc case: both environments are built from
\* clones of typeEnv; error() of tiny-ts-parser throws.
typecheckRecFunc_recFunc(t, typeEnv) ==
    LET funcType == fn(t.params, t.retType)
        newTypeEnvInnerFunc ==
            defineParams(TypeEnv_define(TypeEnv_clone(typeEnv), t.funcName, funcType).newTypeEnv,
                         t.params, 1)
        body == typecheck_recFunc(t.body, newTypeEnvInnerFunc)
    IN  IF IsThrow(body.res) THEN Out(body.res, typeEnv)
        ELSE IF ~typeEq_recFunc(t.retType, body.res.ret)
             THEN Out(Throw("wrong return type"), typeEnv)
        ELSE LET newTypeEnvOuterFunc ==
                     TypeEnv_define(TypeEnv_clone(typeEnv), t.funcName, funcType).newTypeEnv
                 rest == typecheck_recFunc(t.rest, newTypeEnvOuterFunc)
             IN  Out(rest.res, typeEnv)

\* recFunc.ts 169-269.
typecheck_recFunc(t, typeEnv) ==
    CASE t.tag \in {"true", "false"} -> Out(Ret(boolean), typeEnv)
      [] t.tag = "number" -> Out(Ret(number), typeEnv)
      \* 179-189
      [] t.tag = "add" ->
            LET left == typecheck_recFunc(t.left, typeEnv)
            IN  IF IsThrow(left.res) THEN left
                ELSE IF left.res.ret.tag # "Number"
                     THEN Out(Throw("number expected"), left.typeEnv)
                ELSE LET right == typecheck_recFunc(t.right, left.typeEnv)
                     IN  IF IsThrow(right.res) THEN right
                         ELSE IF right.res.ret.tag # "Number"
                              THEN Out(Throw("number expected"), right.typeEnv)
                         ELSE Out(Ret(number), right.typeEnv)
      \* 190-201
      [] t.tag = "if" ->
            LET cond == typecheck_recFunc(t.cond, typeEnv)
            IN  IF IsThrow(cond.res) THEN cond
                ELSE LET then == typecheck_recFunc(t.thn, cond.typeEnv)
                     IN  IF IsThrow(then.res) THEN then
                         ELSE LET elseTerm == typecheck_recFunc(t.els, then.typeEnv)
                              IN  IF IsThrow(elseTerm.res) THEN elseTerm
                                  ELSE IF then.res.ret.tag # elseTerm.res.ret.tag
                                       THEN Out(Throw("branches must have the same type"),
                                                elseTerm.typeEnv)
                                  ELSE Out(then.res, elseTerm.typeEnv)
      \* 202-207
      [] t.tag = "var" ->
            IF t.name \notin DOMAIN typeEnv
            THEN Out(Throw("Unknown variable"), typeEnv)
            ELSE Out(Ret(typeEnv[t.name]), typeEnv)
      \* 208-215: the body is checked in a copy of typeEnv; t.retType is
      \* not read
      [] t.tag = "func" ->
            LET newTypeEnv == bindParams(typeEnv, t.params, 1)
                body == typecheck_recFunc(t.body, newTypeEnv)
            IN  IF IsThrow(body.res) THEN Out(body.res, typeEnv)
                ELSE Out(Ret(fn(t.params, body.res.ret)), typeEnv)
      \* 216-231
      [] t.tag = "call" ->
            LET func == typecheck_recFunc(t.func, typeEnv)
            IN  IF IsThrow(func.res) THEN func
                ELSE IF func.res.ret.tag # "Func"
                     THEN Out(Throw("function expected"), func.typeEnv)
                ELSE IF Len(t.args) # Len(func.res.ret.params)
                     THEN Out(Throw("wrong number of arguments"), func.typeEnv)
                ELSE typecheckArgs_recFunc(t, func.res.ret, func.typeEnv, 1)
      \* 232-235
      [] t.tag = "seq" ->
            LET body == typecheck_recFunc(t.body, typeEnv)
            IN  IF IsThrow(body.res) THEN body
                ELSE typecheck_recFunc(t.rest, body.typeEnv)
      \* 236-240
      [] t.tag = "const" ->
            LET init == typecheck_recFunc(t.init, typeEnv)
            IN  IF IsThrow(init.res) THEN init
                ELSE LET d == TypeEnv_define(init.typeEnv, t.name, init.res.ret)
                         rest == typecheck_recFunc(t.rest, d.newTypeEnv)
                     IN  Out(rest.res, IF d.same THEN rest.typeEnv ELSE d.typeEnv)
      [] t.tag = "recFunc" -> typecheckRecFunc_recFunc(t, typeEnv)

\* ------------------------------------------------------------------ arith.ts: the arith checker

\* arith.ts 33-69: typecheck(t), without an environment.
RECURSIVE typecheck_arith(_)
typecheck_arith(t) ==
    CASE t.tag \in {"true", "false"} -> Ret(boolean)
      [] t.tag = "number" -> Ret(number)
      \* 43-53
      [] t.tag = "add" ->
            LET left == typecheck_arith(t.left)
            IN  IF IsThrow(left) THEN left
                ELSE IF left.ret.tag # "Number" THEN Throw("number expected")
                ELSE LET right == typecheck_arith(t.right)
                     IN  IF IsThrow(right) THEN right
                         ELSE IF right.ret.tag # "Number" THEN Throw("number expected")
                         ELSE Ret(number)
      \* 54-65
      [] t.tag = "if" ->
            LET cond == typecheck_arith(t.cond)
            IN  IF IsThrow(cond) THEN cond
                ELSE IF cond.ret.tag # "Boolean" THEN Throw("boolean expected")
                ELSE LET then == typecheck_arith(t.thn)
                     IN  IF IsThrow(then) THEN then
                         ELSE LET elseTerm == typecheck_arith(t.els)
                              IN  IF IsThrow(elseTerm) THEN elseTerm
                                  ELSE IF then.ret.tag # elseTerm.ret.tag
                                       THEN Throw("branches must have the same type")
                                  ELSE then

\* ------------------------------------------------------------------ arith.ts: the basic checker

\* arith.ts 139-171.
RECURSIVE typeEq_basic(_, _)
typeEq_basic(type1, type2) ==
    CASE type2.tag \in {"Boolean", "Number"} -> type1.tag = type2.tag
      [] type2.tag = "Func" ->
            IF type1.tag # "Func" THEN FALSE
            ELSE IF Len(type1.params) # Len(type2.params) THEN FALSE
            ELSE /\ \A i \in DOMAIN type2.params :
                       typeEq_basic(type1.params[i].type, type2.params[i].type)
                 /\ typeEq_basic(type1.retType, type2.retType)

RECURSIVE typecheck_basic(_, _)
RECURSIVE typecheckArgs_basic(_, _, _, _)

\* arith.ts 272-277: the loop over the arguments of a call.
typecheckArgs_basic(t, funcType, typeEnv, i) ==
    IF i > Len(t.args) THEN Out(Ret(funcType.retType), typeEnv)
    ELSE LET arg == typecheck_basic(t.args[i], typeEnv)
         IN  IF IsThrow(arg.res) THEN arg
             ELSE IF ~typeEq_basic(arg.res.ret, funcType.params[i].type)
                  THEN Out(Throw("argument type mismatch"), arg.typeEnv)
             ELSE typecheckArgs_basic(t, funcType, arg.typeEnv, i + 1)

\* arith.ts 217-292.
typecheck_basic(t, typeEnv) ==
    CASE t.tag \in {"true", "false"} -> Out(Ret(boolean), typeEnv)
      [] t.tag = "number" -> Out(Ret(number), typeEnv)
      \* 227-237
      [] t.tag = "add" ->
            LET left == typecheck_basic(t.left, typeEnv)
            IN  IF IsThrow(left.res) THEN left
                ELSE IF left.res.ret.tag # "Number"
                     THEN Out(Throw("number expected"), left.typeEnv)
                ELSE LET right == typecheck_basic(t.right, left.typeEnv)
                     IN  IF IsThrow(right.res) THEN right
                         ELSE IF right.res.ret.tag # "Number"
                              THEN Out(Throw("number expected"), right.typeEnv)
                         ELSE Out(Ret(number), right.typeEnv)
      \* 238-249
      [] t.tag = "if" ->
            LET cond == typecheck_basic(t.cond, typeEnv)
            IN  IF IsThrow(cond.res) THEN cond
                ELSE LET then == typecheck_basic(t.thn, cond.typeEnv)
                     IN  IF IsThrow(then.res) THEN then
                         ELSE LET elseTerm == typecheck_basic(t.els, then.typeEnv)
                              IN  IF IsThrow(elseTerm.res) THEN elseTerm
                                  ELSE IF then.res.ret.tag # elseTerm.res.ret.tag
                                       THEN Out(Throw("branches must have the same type"),
                                                elseTerm.typeEnv)
                                  ELSE Out(then.res, elseTerm.typeEnv)
      \* 250-255
      [] t.tag = "var" ->
            IF t.name \notin DOMAIN typeEnv
            THEN Out(Throw("Unknown variable"), typeEnv)
            ELSE Out(Ret(typeEnv[t.name]), typeEnv)
      \* 256-263: the body is checked in a copy of typeEnv
      [] t.tag = "func" ->
            LET newTypeEnv == bindParams(typeEnv, t.params, 1)
                body == typecheck_basic(t.body, newTypeEnv)
            IN  IF IsThrow(body.res) THEN Out(body.res, typeEnv)
                ELSE Out(Ret(fn(t.params, body.res.ret)), typeEnv)
      \* 264-279
      [] t.tag = "call" ->
            LET func == typecheck_basic(t.func, typeEnv)
            IN  IF IsThrow(func.res) THEN func
                ELSE IF func.res.ret.tag # "Func"
                     THEN Out(Throw("function expected"), func.typeEnv)
                ELSE IF Len(t.args) # Len(func.res.ret.params)
                     THEN Out(Throw("wrong number of arguments"), func.typeEnv)
                ELSE typecheckArgs_basic(t, func.res.ret, func.typeEnv, 1)
      \* 280-283
      [] t.tag = "seq" ->
            LET body == typecheck_basic(t.body, typeEnv)
            IN  IF IsThrow(body.res) THEN body
                ELSE typecheck_basic(t.rest, body.typeEnv)
      \* 284-288
      [] t.tag = "const" ->
            LET init == typecheck_basic(t.init, typeEnv)
            IN  IF IsThrow(init.res) THEN init
                ELSE LET d == TypeEnv_define(init.typeEnv, t.name, init.res.ret)
                         rest == typecheck_basic(t.rest, d.newTypeEnv)
                     IN  Out(rest.res, IF d.same THEN rest.typeEnv ELSE d.typeEnv)

\* ------------------------------------------------------------------ basic2 (part_001)

TmSeq2(body) == [tag |-> "seq2", body |-> body]
TmConst2(name, init) == [tag |-> "const2", name |-> name, init |-> init]

\* part_001 30-62.
RECURSIVE typeEq_basic2(_, _)
typeEq_basic2(type1, type2) ==
    CASE type2.tag \in {"Boolean", "Number"} -> type1.tag = type2.tag
      [] type2.tag = "Func" ->
            IF type1.tag # "Func" THEN FALSE
            ELSE IF Len(type1.params) # Len(type2.params) THEN FALSE
            ELSE /\ \A i \in DOMAIN type2.params :
                       typeEq_basic2(type1.params[i].type, type2.params[i].type)
                 /\ typeEq_basic2(type1.retType, type2.retType)

RECURSIVE typecheck_basic2(_, _)
RECURSIVE typecheckArgs_basic2(_, _, _, _)
RECURSIVE typecheckSeq2Body_basic2(_, _, _, _)

\* part_001 201-206: the loop over the arguments of a call.
typecheckArgs_basic2(t, funcType, typeEnv, i) ==
    IF i > Len(t.args) THEN Out(Ret(funcType.retType), typeEnv)
    ELSE LET arg == typecheck_basic2(t.args[i], typeEnv)
         IN  IF IsThrow(arg.res) THEN arg
             ELSE IF ~typeEq_basic2(arg.res.ret, funcType.params[i].type)
                  THEN Out(Throw("argument type mismatch"), arg.typeEnv)
             ELSE typecheckArgs_basic2(t, funcType, arg.typeEnv, i + 1)

\* The loop checking every term of the sequence in the bindings the clone had
\* at first.
typecheckSeq2Body_basic2_sameEnv(t, newTypeEnv, i, last) ==
    IF i > Len(t.body) THEN last
    ELSE LET r == typecheck_basic2(t.body[i], newTypeEnv)
         IN  IF IsThrow(r.res) THEN r.res
             ELSE typecheckSeq2Body_basic2(t, newTypeEnv, i + 1, r.res)

\* part_001 213-215: the loop over the terms of the sequence, each checked in
\* the clone; `last` is the variable `result`, null before the first term.
typecheckSeq2Body_basic2(t, newTypeEnv, i, last) ==
    IF i > Len(t.body) THEN last
    ELSE LET r == typecheck_basic2(t.body[i], newTypeEnv)
         IN  IF IsThrow(r.res) THEN r.res
             ELSE typecheckSeq2Body_basic2(t, r.typeEnv, i + 1, r.res)

\* part_001 209-220, the seq2 case.
typecheckSeq2_basic2(t, typeEnv) ==
    LET newTypeEnv == TypeEnv_clone(typeEnv)
        last == typecheckSeq2Body_basic2(t, newTypeEnv, 1, [null |-> TRUE])
    IN  IF "null" \in DOMAIN last THEN Out(Throw("empty sequence"), typeEnv)
        ELSE Out(last, typeEnv)

\* part_001 221-225, the const2 case.
typecheckConst2_basic2(t, typeEnv) ==
    LET init == typecheck_basic2(t.init, typeEnv)
    IN  IF IsThrow(init.res) THEN init
        ELSE Out(init.res, TypeEnv_defineMut(init.typeEnv, t.name, init.res.ret).typeEnv)

\* part_001 146-229.
typecheck_basic2(t, typeEnv) ==
    CASE t.tag \in {"true", "false"} -> Out(Ret(boolean), typeEnv)
      [] t.tag = "number" -> Out(Ret(number), typeEnv)
      \* 156-166
      [] t.tag = "add" ->
            LET left == typecheck_basic2(t.left, typeEnv)
            IN  IF IsThrow(left.res) THEN left
                ELSE IF left.res.ret.tag # "Number"
                     THEN Out(Throw("number expected"), left.typeEnv)
                ELSE LET right == typecheck_basic2(t.right, left.typeEnv)
                     IN  IF IsThrow(right.res) THEN right
                         ELSE IF right.res.ret.tag # "Number"
                              THEN Out(Throw("number expected"), right.typeEnv)
                         ELSE Out(Ret(number), right.typeEnv)
      \* 167-178
      [] t.tag = "if" ->
            LET cond == typecheck_basic2(t.cond, typeEnv)
            IN  IF IsThrow(cond.res) THEN cond
                ELSE LET then == typecheck_basic2(t.thn, cond.typeEnv)
                     IN  IF IsThrow(then.res) THEN then
                         ELSE LET elseTerm == typecheck_basic2(t.els, then.typeEnv)
                              IN  IF IsThrow(elseTerm.res) THEN elseTerm
                                  ELSE IF then.res.ret.tag # elseTerm.res.ret.tag
                                       THEN Out(Throw("branches must have the same type"),
                                                elseTerm.typeEnv)
                                  ELSE Out(then.res, elseTerm.typeEnv)
      \* 179-184
      [] t.tag = "var" ->
            IF t.name \notin DOMAIN typeEnv
            THEN Out(Throw("Unknown variable"), typeEnv)
            ELSE Out(Ret(typeEnv[t.name]), typeEnv)
      \* 185-192: the body is checked in a copy of typeEnv
      [] t.tag = "func" ->
            LET newTypeEnv == bindParams(typeEnv, t.params, 1)
                body == typecheck_basic2(t.body, newTypeEnv)
            IN  IF IsThrow(body.res) THEN Out(body.res, typeEnv)
                ELSE Out(Ret(fn(t.params, body.res.ret)), typeEnv)
      \* 193-208
      [] t.tag = "call" ->
            LET func == typecheck_basic2(t.func, typeEnv)
            IN  IF IsThrow(func.res) THEN func
                ELSE IF func.res.ret.tag # "Func"
                     THEN Out(Throw("function expected"), func.typeEnv)
                ELSE IF Len(t.args) # Len(func.res.ret.params)
                     THEN Out(Throw("wrong number of arguments"), func.typeEnv)
                ELSE typecheckArgs_basic2(t, func.res.ret, func.typeEnv, 1)
      [] t.tag = "seq2" -> typecheckSeq2_basic2(t, typeEnv)
      [] t.tag = "const2" -> typecheckConst2_basic2(t, typeEnv)

\* ------------------------------------------------------------------ poly.ts: typecheck

TmTypeAbs(typeParams, body) == [tag |-> "typeAbs", typeParams |-> typeParams, body |-> body]
TmTypeApp(typeAbsTerm, typeArgs) ==
    [tag |-> "typeApp", typeAbs |-> typeAbsTerm, typeArgs |-> typeArgs]

\* The outcome of typecheck(t, typeEnv, typeVarNames) and what the object
\* typeEnv and the array typeVarNames hold after the call.
OutScope(res, typeEnv, typeVarNames) ==
    [res |-> res, typeEnv |-> typeEnv, typeVarNames |-> typeVarNames]

RECURSIVE typecheck_poly(_, _, _)
RECURSIVE typecheckArgs_poly(_, _, _, _, _)

\* poly.ts 289-294: the loop over the arguments of a call.
typecheckArgs_poly(t, funcType, typeEnv, typeVarNames, i) ==
    IF i > Len(t.args) THEN OutScope(Ret(funcType.retType), typeEnv, typeVarNames)
    ELSE LET arg == typecheck_poly(t.args[i], typeEnv, typeVarNames)
         IN  IF IsThrow(arg.res) THEN arg
             ELSE LET e == typeEq_poly(arg.res.ret, funcType.params[i].type, arg.typeVarNames)
                  IN  IF IsThrow(e) THEN OutScope(e, arg.typeEnv, arg.typeVarNames)
                      ELSE IF ~e.ret
                           THEN OutScope(Throw("argument type mismatch"), arg.typeEnv,
                                         arg.typeVarNames)
                      ELSE typecheckArgs_poly(t, funcType, arg.typeEnv, arg.typeVarNames, i + 1)

\* The typeAbs case pushing the type parameters onto the array of the caller.
typecheckTypeAbs_poly_pushInPlace(t, typeEnv, typeVarNames) ==
    LET newTypeVarNames == typeVarNames \o t.typeParams
        bodyType == typecheck_poly(t.body, typeEnv, newTypeVarNames)
    IN  IF IsThrow(bodyType.res) THEN bodyType
        ELSE OutScope(Ret(typeAbs(t.typeParams, bodyType.res.ret)), bodyType.typeEnv,
                      bodyType.typeVarNames)

\* poly.ts 306-310, the typeAbs case: the body is checked with a new array,
\* the array of the caller followed by the type parameters.
typecheckTypeAbs_poly(t, typeEnv, typeVarNames) ==
    LET newTypeVarNames == typeVarNames \o t.typeParams
        bodyType == typecheck_poly(t.body, typeEnv, newTypeVarNames)
    IN  IF IsThrow(bodyType.res) THEN OutScope(bodyType.res, bodyType.typeEnv, typeVarNames)
        ELSE OutScope(Ret(typeAbs(t.typeParams, bodyType.res.ret)), bodyType.typeEnv,
                      typeVarNames)

\* poly.ts 319-322: the reduce over bodyType.typeParams.
RECURSIVE substituteTypeArgs(_, _, _, _)
substituteTypeArgs(substitutedType, typeParams, typeArgs, i) ==
    IF i > Len(typeParams) THEN substitutedType
    ELSE substituteTypeArgs(substitute(substitutedType, typeParams[i], typeArgs[i]),
                            typeParams, typeArgs, i + 1)

\* poly.ts 311-323, the typeApp case: error() of tiny-ts-parser throws.
typecheckTypeApp_poly(t, typeEnv, typeVarNames) ==
    LET bodyType == typecheck_poly(t.typeAbs, typeEnv, typeVarNames)
    IN  IF IsThrow(bodyType.res) THEN bodyType
        ELSE IF bodyType.res.ret.tag # "TypeAbs"
             THEN OutScope(Throw("type abstraction expected"), bodyType.typeEnv,
                           bodyType.typeVarNames)
        ELSE IF Len(t.typeArgs) # Len(bodyType.res.ret.typeParams)
             THEN OutScope(Throw("wrong number of type arguments"), bodyType.typeEnv,
                           bodyType.typeVarNames)
        ELSE OutScope(Ret(substituteTypeArgs(bodyType.res.ret.type,
                                             bodyType.res.ret.typeParams, t.typeArgs, 1)),
                      bodyType.typeEnv, bodyType.typeVarNames)

\* poly.ts 234-327.
typecheck_poly(t, typeEnv, typeVarNames) ==
    CASE t.tag \in {"true", "false"} -> OutScope(Ret(boolean), typeEnv, typeVarNames)
      [] t.tag = "number" -> OutScope(Ret(number), typeEnv, typeVarNames)
      \* 244-254
      [] t.tag = "add" ->
            LET left == typecheck_poly(t.left, typeEnv, typeVarNames)
            IN  IF IsThrow(left.res) THEN left
                ELSE IF left.res.ret.tag # "Number"
                     THEN OutScope(Throw("number expected"), left.typeEnv, left.typeVarNames)
                ELSE LET right == typecheck_poly(t.right, left.typeEnv, left.typeVarNames)
                     IN  IF IsThrow(right.res) THEN right
                         ELSE IF right.res.ret.tag # "Number"
                              THEN OutScope(Throw("number expected"), right.typeEnv,
                                            right.typeVarNames)
                         ELSE OutScope(Ret(number), right.typeEnv, right.typeVarNames)
      \* 255-266
      [] t.tag = "if" ->
            LET cond == typecheck_poly(t.cond, typeEnv, typeVarNames)
            IN  IF IsThrow(cond.res) THEN cond
                ELSE LET then == typecheck_poly(t.thn, cond.typeEnv, cond.typeVarNames)
                     IN  IF IsThrow(then.res) THEN then
                         ELSE LET elseTerm == typecheck_poly(t.els, then.typeEnv, then.typeVarNames)
                              IN  IF IsThrow(elseTerm.res) THEN elseTerm
                                  ELSE IF then.res.ret.tag # elseTerm.res.ret.tag
                                       THEN OutScope(Throw("branches must have the same type"),
                                                     elseTerm.typeEnv, elseTerm.typeVarNames)
                                  ELSE OutScope(then.res, elseTerm.typeEnv, elseTerm.typeVarNames)
      \* 267-272
      [] t.tag = "var" ->
            IF t.name \notin DOMAIN typeEnv
            THEN OutScope(Throw("Unknown variable"), typeEnv, typeVarNames)
            ELSE OutScope(Ret(typeEnv[t.name]), typeEnv, typeVarNames)
      \* 273-280: the body is checked in a copy of typeEnv
      [] t.tag = "func" ->
            LET newTypeEnv == bindParams(typeEnv, t.params, 1)
                body == typecheck_poly(t.body, newTypeEnv, typeVarNames)
            IN  IF IsThrow(body.res) THEN OutScope(body.res, typeEnv, body.typeVarNames)
                ELSE OutScope(Ret(fn(t.params, body.res.ret)), typeEnv, body.typeVarNames)
      \* 281-296
      [] t.tag = "call" ->
            LET func == typecheck_poly(t.func, typeEnv, typeVarNames)
            IN  IF IsThrow(func.res) THEN func
                ELSE IF func.res.ret.tag # "Func"
                     THEN OutScope(Throw("function expected"), func.typeEnv, func.typeVarNames)
                ELSE IF Len(t.args) # Len(func.res.ret.params)
                     THEN OutScope(Throw("wrong number of arguments"), func.typeEnv,
                                   func.typeVarNames)
                ELSE typecheckArgs_poly(t, func.res.ret, func.typeEnv, func.typeVarNames, 1)
      \* 297-300
      [] t.tag = "seq" ->
            LET body == typecheck_poly(t.body, typeEnv, typeVarNames)
            IN  IF IsThrow(body.res) THEN body
                ELSE typecheck_poly(t.rest, body.typeEnv, body.typeVarNames)
      \* 301-305
      [] t.tag = "const" ->
            LET init == typecheck_poly(t.init, typeEnv, typeVarNames)
            IN  IF IsThrow(init.res) THEN init
                ELSE LET d == TypeEnv_define(init.typeEnv, t.name, init.res.ret)
                         rest == typecheck_poly(t.rest, d.newTypeEnv, init.typeVarNames)
                     IN  OutScope(rest.res, IF d.same THEN rest.typeEnv ELSE d.typeEnv,
                                  rest.typeVarNames)
      [] t.tag = "typeAbs" -> typecheckTypeAbs_poly(t, typeEnv, typeVarNames)
      [] t.tag = "typeApp" -> typecheckTypeApp_poly(t, typeEnv, typeVarNames)

\* ------------------------------------------------------------------ universe of terms

Atoms == {TmTrue, TmNumber, TmVar("x")}

LiteralNames == {"foo", "bar"}

\* Every object literal of at most n props, names repeated or not, with the
\* prop terms of S.
ObjectLiterals(S, n) ==
    UNION {{TmObjectNew([i \in 1..k |-> propTerm(ns[i], ts[i])]) :
               ns \in [1..k -> LiteralNames], ts \in [1..k -> S]} :
           k \in 1..n}

Literals == ObjectLiterals({TmTrue, TmNumber}, MaxProps)

\* Declared parameter types and declared return types.
ParamTypes == {number, boolean, Foo, FooBar, fn(<<>>, number), NumStream}
RetTypes == {undefined, number, boolean, Foo}

Bodies ==
    Atoms \cup {TmObjectGet(TmVar("x"), "foo"),
                TmAdd(TmVar("x"), TmNumber),
                TmObjectNew(<<propTerm("foo", TmNumber)>>)}

Funcs ==
    {TmFunc(<<param("x", p)>>, r, b) : p \in ParamTypes, r \in RetTypes, b \in Bodies}
      \cup {TmFunc(<<>>, r, b) : r \in RetTypes, b \in Bodies}

\* Function terms without a declared return type, of differing signatures.
SmallFuncs ==
    {TmFunc(<<param(n, p)>>, undefined, b) :
        n \in ParamNames, p \in {number, boolean, Foo}, b \in {TmNumber, TmTrue}}
      \cup {TmFunc(<<>>, undefined, b) : b \in {TmNumber, TmTrue}}

Conds == {TmTrue, TmNumber, TmAdd(TmNumber, TmTrue)}
Branches == Atoms \cup Literals \cup SmallFuncs

\* const f = (x: { foo: number }) => x.foo; const x = { foo: 1, bar: true }; f(x)
SubtypeArgumentCall ==
    TmConst("f", TmFunc(<<param("x", Foo)>>, undefined, TmObjectGet(TmVar("x"), "foo")),
            TmConst("x", TmObjectNew(<<propTerm("foo", TmNumber), propTerm("bar", TmTrue)>>),
                    TmCall(TmVar("f"), <<TmVar("x")>>)))

\* (n: number): boolean => 42, of the recFunc test.
WrongReturnFunc == TmFunc(<<param("n", number)>>, boolean, TmNumber)

RecFuncs ==
    {TmRecFunc("f", <<param("x", number)>>, r, b, rest) :
        r \in {number, boolean},
        b \in {TmCall(TmVar("f"), <<TmVar("x")>>), TmVar("x"), TmTrue},
        rest \in {TmVar("f"), TmCall(TmVar("f"), <<TmNumber>>), TmVar("x")}}
      \* function f(f: number): number { return f; }; f
      \cup {TmRecFunc("f", <<param("f", number)>>, number, TmVar("f"), TmVar("f"))}

Terms_rec ==
    Atoms \cup Literals \cup Funcs \cup RecFuncs \cup {SubtypeArgumentCall, WrongReturnFunc}
      \cup {TmObjectGet(o, n) : o \in Atoms \cup Literals, n \in LiteralNames}
      \cup {TmCall(f, <<a>>) : f \in Funcs \cup {TmVar("x")}, a \in Atoms \cup Literals}
      \cup {TmCall(f, <<>>) : f \in Funcs}
      \cup {TmIf(c, t, e) : c \in Conds, t \in Branches, e \in Branches}
      \cup {TmAdd(l, r) : l \in Atoms, r \in Atoms}
      \cup {TmSeq(b, r) : b \in Atoms \cup {TmAdd(TmNumber, TmTrue)}, r \in Atoms}
      \cup {TmConst("x", i, r) :
               i \in Atoms \cup Literals \cup SmallFuncs,
               r \in Bodies \cup {TmCall(TmVar("x"), <<TmNumber>>),
                                  TmConst("x", TmTrue, TmVar("x"))}}

\* The terms of recFunc.ts: no object literal, no property access.
Terms_recFunc ==
    Atoms \cup RecFuncs \cup SmallFuncs \cup {WrongReturnFunc}
      \cup {TmFunc(<<param("x", p)>>, r, b) :
               p \in {number, boolean, Foo, fn(<<>>, number)},
               r \in {undefined, number, boolean},
               b \in Atoms \cup {TmAdd(TmVar("x"), TmNumber)}}
      \cup {TmCall(f, <<a>>) : f \in SmallFuncs \cup {TmVar("x")}, a \in Atoms \cup SmallFuncs}
      \cup {TmCall(f, <<>>) : f \in SmallFuncs}
      \cup {TmIf(c, t, e) : c \in Conds, t \in Atoms \cup SmallFuncs, e \in Atoms \cup SmallFuncs}
      \cup {TmAdd(l, r) : l \in Atoms, r \in Atoms}
      \cup {TmSeq(b, r) : b \in Atoms \cup {TmAdd(TmNumber, TmTrue)}, r \in Atoms}
      \cup {TmConst("x", i, r) :
               i \in Atoms \cup SmallFuncs,
               r \in Atoms \cup {TmCall(TmVar("x"), <<TmNumber>>),
                                 TmConst("x", TmTrue, TmVar("x"))}}

\* The terms of the arith checker: true, false, number, add and if.
Terms_arith ==
    LET ArithLeaves == {TmTrue, TmFalse, TmNumber}
        ArithSmall ==
            ArithLeaves
              \cup {TmAdd(l, r) : l \in ArithLeaves, r \in ArithLeaves}
              \cup {TmIf(c, t, e) : c \in ArithLeaves, t \in ArithLeaves, e \in ArithLeaves}
    IN  ArithSmall
          \cup {TmIf(c, t, e) : c \in ArithSmall, t \in ArithLeaves, e \in ArithLeaves}
          \cup {TmAdd(l, r) : l \in ArithSmall, r \in ArithSmall}

\* The terms of the basic checker: the types are Boolean, Number and Func.
BasicFuncs ==
    {TmFunc(<<param(n, p)>>, undefined, b) :
        n \in ParamNames, p \in {number, boolean, fn(<<>>, number)},
        b \in {TmNumber, TmTrue, TmVar("x")}}
      \cup {TmFunc(<<>>, undefined, b) : b \in {TmNumber, TmTrue, TmVar("x")}}
Terms_basic ==
    Atoms \cup BasicFuncs
      \cup {TmCall(f, <<a>>) : f \in BasicFuncs \cup {TmVar("x")}, a \in Atoms \cup BasicFuncs}
      \cup {TmCall(f, <<>>) : f \in BasicFuncs}
      \cup {TmIf(c, t, e) : c \in Conds, t \in Atoms \cup BasicFuncs, e \in Atoms \cup BasicFuncs}
      \cup {TmAdd(l, r) : l \in Atoms, r \in Atoms}
      \cup {TmSeq(b, r) : b \in Atoms \cup {TmAdd(TmNumber, TmTrue)}, r \in Atoms}
      \cup {TmConst("x", i, r) :
               i \in Atoms \cup BasicFuncs,
               r \in Atoms \cup {TmCall(TmVar("x"), <<TmNumber>>),
                                 TmConst("x", TmTrue, TmVar("x"))}}

\* The environments of the caller of the basic, basic2 and recFunc checkers.
Envs_basic ==
    {EmptyMap,
     MapPut(EmptyMap, "x", number),
     MapPut(EmptyMap, "x", fn(<<param("x", number)>>, number))}

\* Number of terms of the longest seq2 drawn.
MaxSeq2Len == 2

\* The terms of basic2: const2 adds a binding, seq2 checks its terms in order.
Statements ==
    {TmConst2(n, i) : n \in ParamNames, i \in {TmNumber, TmTrue, TmVar("x")}}
      \cup {TmNumber, TmVar("x"), TmVar("y"),
            TmAdd(TmVar("x"), TmNumber),
            TmSeq2(<<TmConst2("x", TmTrue)>>),
            TmConst2("x", TmFunc(<<param("x", number)>>, undefined, TmVar("x"))),
            TmCall(TmVar("x"), <<TmNumber>>),
            \* a const2 inside a branch, an operand and an argument
            TmIf(TmTrue, TmConst2("y", TmNumber), TmNumber),
            TmAdd(TmConst2("y", TmNumber), TmNumber),
            TmCall(TmVar("x"), <<TmConst2("y", TmNumber)>>)}
Terms_basic2 ==
    Statements
      \cup {TmSeq2(b) : b \in UNION {[1..k -> Statements] : k \in 0..MaxSeq2Len}}
      \cup {TmIf(c, t, e) : c \in Statements, t \in {TmNumber, TmVar("x")},
                            e \in {TmNumber, TmConst2("y", TmNumber)}}
      \cup {TmAdd(l, r) : l \in Statements, r \in {TmNumber, TmVar("x"), TmVar("y")}}
      \cup {TmFunc(<<param("x", number)>>, undefined, b) : b \in Statements}
      \cup {TmCall(f, <<a>>) :
               f \in {TmVar("x"), TmFunc(<<param("x", number)>>, undefined, TmVar("x"))},
               a \in Statements}

\* The terms of poly.ts: type abstractions over functions and their
\* applications to type arguments.
PolyFuncs ==
    {TmFunc(<<param("x", typeVar(v))>>, undefined, TmVar("x")) : v \in PolyNames}
      \cup {TmFunc(<<param("x", typeVar(v)), param("y", typeVar(w))>>, undefined, TmVar(b)) :
               v \in PolyNames, w \in PolyNames, b \in ParamNames}
TypeAbsTerms ==
    {TmTypeAbs(ps, f) : ps \in BinderLists, f \in PolyFuncs}
      \cup {TmTypeAbs(ps, TmTypeAbs(qs, f)) :
               ps \in BinderLists, qs \in BinderLists,
               f \in {g \in PolyFuncs : Len(g.params) = 1}}
TypeArgs == {number, boolean, typeVar("T"), typeVar("U")}
Terms_poly ==
    Atoms \cup PolyFuncs \cup TypeAbsTerms
      \cup {TmTypeApp(ta, tas) : ta \in TypeAbsTerms \cup {TmVar("x"), TmNumber},
                                 tas \in UNION {[1..k -> TypeArgs] : k \in 1..2}}
      \cup {TmCall(TmTypeApp(TmTypeAbs(<<"T">>, f), <<a>>), <<b>>) :
               f \in {g \in PolyFuncs : Len(g.params) = 1},
               a \in TypeArgs, b \in Atoms}
      \cup {TmIf(c, t, e) : c \in Conds,
                            t \in Atoms \cup {ta \in TypeAbsTerms : ta.body.tag = "func"},
                            e \in Atoms \cup {ta \in TypeAbsTerms : ta.body.tag = "func"}}
      \cup {TmAdd(l, r) : l \in Atoms, r \in Atoms}
      \cup {TmSeq(b, r) : b \in Atoms \cup {TmAdd(TmNumber, TmTrue)}, r \in Atoms}
      \cup {TmConst("x", i, r) :
               i \in Atoms \cup {ta \in TypeAbsTerms : ta.body.tag = "func"},
               r \in {TmVar("x"), TmTypeApp(TmVar("x"), <<number>>),
                      TmConst("x", TmTrue, TmVar("x"))}}
      \* f(x), whose argument is compared with the parameter under the
      \* type variables in scope: alone, in the body of a type abstraction,
      \* and after a type abstraction
      \cup {TmCall(TmVar("f"), <<TmVar("x")>>)}
      \cup {TmTypeAbs(ps, TmFunc(<<param("y", number)>>, undefined,
                                 TmCall(TmVar("f"), <<TmVar("x")>>))) : ps \in BinderLists}
      \cup {TmSeq(ta, TmCall(TmVar("f"), <<TmVar("x")>>)) :
               ta \in {a \in TypeAbsTerms : a.body.tag = "func"}}

Envs_poly ==
    {EmptyMap,
     MapPut(EmptyMap, "x", number),
     MapPut(EmptyMap, "x", IdAbs(<<"T">>, "T")),
     \* x: T and f: (x: T) => T
     MapPut(MapPut(EmptyMap, "x", typeVar("T")),
            "f", fn(<<param("x", typeVar("T"))>>, typeVar("T")))}

\* The environments of the caller.
Envs_rec ==
    {EmptyMap,
     MapPut(EmptyMap, "x", number),
     MapPut(EmptyMap, "x", FooBar),
     MapPut(EmptyMap, "x", fn(<<param("x", number)>>, number))}

\* rec.ts typecheck(t, typeEnv).
CallTypecheck_rec ==
    /\ op = "init"
    /\ UNCHANGED scopeList
    /\ \E t \in Terms_rec, e \in Envs_rec :
          LET o == typecheck_rec(t, e)
          IN  /\ op' = "typecheck_rec"
              /\ args' = <<t, e>>
              /\ result' = o.res
              /\ env' = o.typeEnv

\* recFunc.ts typecheck(t, typeEnv).
CallTypecheck_recFunc ==
    /\ op = "init"
    /\ UNCHANGED scopeList
    /\ \E t \in Terms_recFunc, e \in Envs_basic :
          LET o == typecheck_recFunc(t, e)
          IN  /\ op' = "typecheck_recFunc"
              /\ args' = <<t, e>>
              /\ result' = o.res
              /\ env' = o.typeEnv

\* arith.ts typecheck(t) of the arith checker: no environment.
CallTypecheck_arith ==
    /\ op = "init"
    /\ UNCHANGED <<env, scopeList>>
    /\ \E t \in Terms_arith :
          /\ op' = "typecheck_arith"
          /\ args' = <<t>>
          /\ result' = typecheck_arith(t)

\* arith.ts typecheck(t, typeEnv) of the basic checker.
CallTypecheck_basic ==
    /\ op = "init"
    /\ UNCHANGED scopeList
    /\ \E t \in Terms_basic, e \in Envs_basic :
          LET o == typecheck_basic(t, e)
          IN  /\ op' = "typecheck_basic"
              /\ args' = <<t, e>>
              /\ result' = o.res
              /\ env' = o.typeEnv

\* part_001 typecheck(t, typeEnv) of basic2.
CallTypecheck_basic2 ==
    /\ op = "init"
    /\ UNCHANGED scopeList
    /\ \E t \in Terms_basic2, e \in Envs_basic :
          LET o == typecheck_basic2(t, e)
          IN  /\ op' = "typecheck_basic2"
              /\ args' = <<t, e>>
              /\ result' = o.res
              /\ env' = o.typeEnv

\* poly.ts typecheck(t, typeEnv, typeVarNames).
CallTypecheck_poly ==
    /\ op = "init"
    /\ \E t \in Terms_poly, e \in Envs_poly, tvs \in TypeVarLists :
          LET o == typecheck_poly(t, e, tvs)
          IN  /\ op' = "typecheck_poly"
              /\ args' = <<t, e, tvs>>
              /\ result' = o.res
              /\ env' = o.typeEnv
              /\ scopeList' = o.typeVarNames

NextTypecheck ==
    \/ CallTypecheck_arith
    \/ CallTypecheck_basic
    \/ CallTypecheck_basic2
    \/ CallTypecheck_recFunc
    \/ CallTypecheck_rec
    \/ CallTypecheck_poly

SpecTypecheck == Init /\ [][NextTypecheck]_vars

\* Every call of the engine.
Next ==
    NextRec \/ NextExpand \/ NextPolyEq \/ NextSym \/ NextEqMap \/ NextSubst \/ NextFuncEq \/ NextSub \/ NextTypecheck

Spec == Init /\ [][Next]_vars

\* ------------------------------------------------------------------ properties of rec.ts

\* C1: rec.ts typeEq(t, t) returns true for every closed type t.
C1_Reflexive ==
    (op = "typeEq_rec" /\ args[1] = args[2]) => result = Ret(TRUE)

\* C2: rec.ts typeEq(a, b) on closed types, and unwrapRecType on a closed
\* type, finish and return a value.
C2_Total ==
    op \in {"typeEq_rec", "unwrapRecType"} => IsRet(result)

IsUnfolding(r, u) ==
    /\ r.tag = "Rec"
    /\ u = expandType(r.type, r.name, r)
    /\ IsRet(unwrapRecType(r, StackLimit))

\* C3: a closed Rec type whose unfolding terminates is equal to its
\* unfolding, in both orders.
C3_EqualsUnfolding ==
    (/\ op = "typeEq_rec"
     /\ IsUnfolding(args[1], args[2]) \/ IsUnfolding(args[2], args[1]))
    => result = Ret(TRUE)

PropNames(t) == {t.props[i].name : i \in DOMAIN t.props}
PropType(t, n) == t.props[find(t.props, n)].type

\* The comparison the call of the current state made, applied to two types.
SameEq(t1, t2) ==
    IF op = "typeEq_rec" THEN typeEq_rec(t1, t2) ELSE Ret(typeEq_recFunc(t1, t2))

\* C10: typeEq on two Object types with unique field names (rec.ts and
\* recFunc.ts) returns true exactly when both have the same set of field names
\* and the types of the same-named fields are equal, whatever the order of the
\* props.
C10_RecordEqExact ==
    (/\ op \in {"typeEq_rec", "typeEq_recFunc"}
     /\ args[1].tag = "Object"
     /\ args[2].tag = "Object")
    => ((result = Ret(TRUE))
        <=> (/\ PropNames(args[1]) = PropNames(args[2])
             /\ \A n \in PropNames(args[1]) :
                   SameEq(PropType(args[1], n), PropType(args[2], n)) = Ret(TRUE)))

\* Two Object types with the same two fields in opposite orders, compared
\* equal by rec.ts.
C10_Witness ==
    /\ op = "typeEq_rec"
    /\ args[1].tag = "Object"
    /\ args[2].tag = "Object"
    /\ Len(args[1].props) = 2
    /\ Len(args[2].props) = 2
    /\ args[1].props[1].name = args[2].props[2].name
    /\ args[1].props[1].name # args[2].props[1].name
    /\ result = Ret(TRUE)

\* ------------------------------------------------------------------ properties of poly.ts

Last(S) == CHOOSE i \in S : \A j \in S : j <= i

\* The type with every bound type variable replaced by the distance to its
\* binder: two types have the same image exactly when one is a consistent
\* renaming of the bound names of the other.
RECURSIVE Nameless(_, _)
Nameless(t, scope) ==
    CASE t.tag \in {"Boolean", "Number"} -> t
      [] t.tag = "TypeVar" ->
            LET at == {i \in DOMAIN scope : scope[i] = t.name}
            IN  IF at = {} THEN [tag |-> "Free", name |-> t.name]
                ELSE [tag |-> "Bound", up |-> Len(scope) - Last(at)]
      [] t.tag = "Func" ->
            fn([i \in DOMAIN t.params |->
                    [name |-> t.params[i].name, type |-> Nameless(t.params[i].type, scope)]],
               Nameless(t.retType, scope))
      [] t.tag = "TypeAbs" ->
            [tag |-> "TypeAbs", arity |-> Len(t.typeParams),
             type |-> Nameless(t.type, scope \o t.typeParams)]

IsRenaming(ta, tb) ==
    /\ ta.tag = "TypeAbs"
    /\ tb.tag = "TypeAbs"
    /\ Nameless(ta, <<>>) = Nameless(tb, <<>>)

\* C4 as stated: typeEqRec(ta, tb, {}) is true for every type abstraction ta
\* and every consistent renaming tb of its bound names.
C4_RenamingInvariant ==
    (op = "typeEqRec" /\ args[3] = EmptyMap /\ IsRenaming(args[1], args[2]))
    => result = Ret(TRUE)

\* C4 amended: typeEqRec(ta, tb, {}) is true for every type abstraction ta
\* without free type variables and every consistent renaming tb of its bound
\* names.
C4_RenamingInvariantClosed ==
    (/\ op = "typeEqRec"
     /\ args[3] = EmptyMap
     /\ IsRenaming(args[1], args[2])
     /\ Closed(args[1]))
    => result = Ret(TRUE)

\* <T>(x: T) => T compared with <U>(x: U) => U under the empty map.
C4_Witness ==
    /\ op = "typeEqRec"
    /\ args[3] = EmptyMap
    /\ args[1] = IdAbs(<<"T">>, "T")
    /\ args[2] = IdAbs(<<"U">>, "U")
    /\ IsRenaming(args[1], args[2])
    /\ result = Ret(TRUE)

\* C5: typeEqRec on two TypeAbs types whose typeParams differ in length
\* returns false, for every body and every binding map, and does not throw.
C5_AritySensitive ==
    (/\ op = "typeEqRec"
     /\ args[1].tag = "TypeAbs"
     /\ args[2].tag = "TypeAbs"
     /\ Len(args[1].typeParams) # Len(args[2].typeParams))
    => result = Ret(FALSE)

\* <T>(x: T) => T compared with <T, U>(x: T) => T under a map that binds T.
C5_Witness ==
    /\ op = "typeEqRec"
    /\ args[1] = IdAbs(<<"T">>, "T")
    /\ args[2] = IdAbs(<<"T", "U">>, "T")
    /\ "T" \in DOMAIN args[3]
    /\ result = Ret(FALSE)

\* C6: typeEqRec(TypeVar(n1), TypeVar(n2), m) with n1 in m is true exactly
\* when m[n1] = n2; so <T, U>(x: T) => T and <U, T>(x: T) => U are not
\* equivalent, and typeEq on two distinct in-scope type variables is false.
C6_TypeVarRule ==
    /\ (/\ op = "typeEqRec"
        /\ args[1].tag = "TypeVar"
        /\ args[2].tag = "TypeVar"
        /\ args[1].name \in DOMAIN args[3])
       => result = Ret(args[3][args[1].name] = args[2].name)
    /\ (/\ op = "typeEqRec"
        /\ args[1] = IdAbs(<<"T", "U">>, "T")
        /\ args[2] = SwapAbs(<<"U", "T">>, "T", "U"))
       => result = Ret(FALSE)
    /\ (/\ op = "typeEq_poly"
        /\ args[1] = typeVar("T")
        /\ args[2] = typeVar("U")
        /\ args[3] = <<"T", "U">>)
       => result = Ret(FALSE)

BoundNames(t) == {t.typeParams[i] : i \in DOMAIN t.typeParams}

\* The target with every free occurrence of TypeVar(v) replaced by r: a
\* TypeAbs that rebinds v is left as it is.
RECURSIVE ReplaceFree(_, _, _)
ReplaceFree(target, v, r) ==
    CASE target.tag \in {"Boolean", "Number"} -> target
      [] target.tag = "TypeVar" -> IF target.name = v THEN r ELSE target
      [] target.tag = "Func" ->
            fn([i \in DOMAIN target.params |->
                    [name |-> target.params[i].name,
                     type |-> ReplaceFree(target.params[i].type, v, r)]],
               ReplaceFree(target.retType, v, r))
      [] target.tag = "TypeAbs" ->
            IF v \in BoundNames(target) THEN target
            ELSE typeAbs(target.typeParams, ReplaceFree(target.type, v, r))

\* C7: substitute(target, v, r) returns target with every free occurrence of
\* TypeVar(v) replaced by r and nothing else changed; when r does not mention
\* v, v is not free in what it returns.
C7_ReplacesFreeOccurrences ==
    op = "substitute"
    => /\ result = Ret(ReplaceFree(args[1], args[2], args[3]))
       /\ args[2] \notin FreeVars(args[3]) => args[2] \notin FreeVars(result.ret)

\* Every TypeAbs of target that rebinds v is found unchanged at the same place
\* in res.
RECURSIVE ShadowKept(_, _, _)
ShadowKept(target, res, v) ==
    CASE target.tag = "TypeAbs" ->
            IF v \in BoundNames(target) THEN res = target
            ELSE res.tag = "TypeAbs" /\ ShadowKept(target.type, res.type, v)
      [] target.tag = "Func" ->
            /\ res.tag = "Func"
            /\ Len(res.params) = Len(target.params)
            /\ \A i \in DOMAIN target.params :
                  ShadowKept(target.params[i].type, res.params[i].type, v)
            /\ ShadowKept(target.retType, res.retType, v)
      [] OTHER -> TRUE

\* C8: substituting for T leaves a nested TypeAbs that rebinds T, and the
\* occurrences of T it binds, unchanged.
C8_ShadowingKept ==
    op = "substitute" => ShadowKept(args[1], result.ret, args[2])

\* No free occurrence of TypeVar(v) in target was replaced by r at a place of
\* res that lies under a binder of a name free in r.  `hidden` is whether a
\* TypeAbs of target rebinds v above this place; `binders` are the names bound
\* in res above it.
RECURSIVE CaptureFree(_, _, _, _, _, _)
CaptureFree(target, res, v, r, hidden, binders) ==
    CASE target.tag = "TypeVar" ->
            (target.name = v /\ ~hidden) => FreeVars(r) \cap binders = {}
      [] target.tag = "TypeAbs" ->
            /\ res.tag = "TypeAbs"
            /\ CaptureFree(target.type, res.type, v, r,
                           hidden \/ v \in BoundNames(target),
                           binders \cup BoundNames(res))
      [] target.tag = "Func" ->
            /\ res.tag = "Func"
            /\ Len(res.params) = Len(target.params)
            /\ \A i \in DOMAIN target.params :
                  CaptureFree(target.params[i].type, res.params[i].type, v, r,
                              hidden, binders)
            /\ CaptureFree(target.retType, res.retType, v, r, hidden, binders)
      [] OTHER -> TRUE

\* C9: when the replacement has a free type variable U and the target has a
\* nested TypeAbs that binds U, substitute renames the inner binder, so that
\* no free variable of the replacement becomes bound by it.
C9_NoCapture ==
    op = "substitute" => CaptureFree(args[1], result.ret, args[2], args[3], FALSE, {})

\* ------------------------------------------------------------------ properties of function types

\* The type with every parameter name replaced by one name.
RECURSIVE Unnamed(_)
Unnamed(t) ==
    CASE t.tag = "Func" ->
            fn([i \in DOMAIN t.params |-> param("_", Unnamed(t.params[i].type))],
               Unnamed(t.retType))
      [] t.tag = "Object" ->
            object([i \in DOMAIN t.props |-> prop(t.props[i].name, Unnamed(t.props[i].type))])
      [] t.tag = "Rec" -> rec(t.name, Unnamed(t.type))
      [] t.tag = "TypeAbs" -> typeAbs(t.typeParams, Unnamed(t.type))
      [] OTHER -> t

\* The comparison the call of the current state made, applied to two types.
EqAsCalled(t1, t2) ==
    IF op = "typeEq_rec" THEN typeEq_rec(t1, t2) ELSE typeEqRec(t1, t2, args[3])

\* C11: typeEq (rec.ts) and typeEqRec (poly.ts) on two Func types return true
\* exactly when the numbers of parameters are equal, the parameter types are
\* pairwise equal by position and the return types are equal; replacing the
\* parameter names does not change the outcome.
C11_FuncEqIgnoresNames ==
    (/\ op \in {"typeEq_rec", "typeEqRec"}
     /\ args[1].tag = "Func"
     /\ args[2].tag = "Func")
    => /\ (result = Ret(TRUE))
          <=> (/\ Len(args[1].params) = Len(args[2].params)
               /\ \A i \in DOMAIN args[1].params :
                     EqAsCalled(args[1].params[i].type, args[2].params[i].type) = Ret(TRUE)
               /\ EqAsCalled(args[1].retType, args[2].retType) = Ret(TRUE))
       /\ result = EqAsCalled(Unnamed(args[1]), Unnamed(args[2]))

\* Two function types that differ only in the name of a parameter, compared
\* equal by rec.ts.
C11_Witness ==
    /\ op = "typeEq_rec"
    /\ args[1].tag = "Func"
    /\ args[2].tag = "Func"
    /\ Len(args[1].params) = Len(args[2].params)
    /\ \E i \in DOMAIN args[1].params : args[1].params[i].name # args[2].params[i].name
    /\ result = Ret(TRUE)

\* ------------------------------------------------------------------ properties of sub.ts

\* C12: subtype on two Object types is true exactly when every field of sup
\* has a same-named field in sub whose type is a subtype, whatever other
\* fields sub has; {foo: Number, bar: Number} is a subtype of {foo: Number}
\* and {foo: Number} is not a subtype of {foo: Number, bar: Number}.
C12_WidthSubtyping ==
    op = "subtype" =>
       /\ (args[1].tag = "Object" /\ args[2].tag = "Object")
          => ((result = Ret(TRUE))
              <=> \A n \in PropNames(args[2]) :
                     /\ n \in PropNames(args[1])
                     /\ subtype(PropType(args[1], n), PropType(args[2], n)))
       /\ (/\ args[1] = object(<<prop("foo", number), prop("bar", number)>>)
           /\ args[2] = Foo)
          => result = Ret(TRUE)
       /\ (/\ args[1] = Foo
           /\ args[2] = object(<<prop("foo", number), prop("bar", number)>>))
          => result = Ret(FALSE)

\* {foo: Number, bar: Number} found to be a subtype of {foo: Number}.
C12_Witness ==
    /\ op = "subtype"
    /\ args[1] = object(<<prop("foo", number), prop("bar", number)>>)
    /\ args[2] = Foo
    /\ result = Ret(TRUE)

\* C13: subtype on two Func types is true exactly when the numbers of
\* parameters are equal, the return type of sub is a subtype of that of sup
\* and every parameter type of sup is a subtype of the parameter type of sub
\* at the same position.  A function taking {foo} is accepted where one taking
\* {foo, bar} is expected, the opposite is rejected with 'argument type
\* mismatch', and a function returning {foo, bar, baz} is accepted where one
\* returning {foo, bar} is expected.
C13_FuncVariance ==
    /\ (op = "subtype" /\ args[1].tag = "Func" /\ args[2].tag = "Func")
       => ((result = Ret(TRUE))
           <=> (/\ Len(args[1].params) = Len(args[2].params)
                /\ subtype(args[1].retType, args[2].retType)
                /\ \A i \in DOMAIN args[2].params :
                      subtype(args[2].params[i].type, args[1].params[i].type)))
    /\ (/\ op = "typecheckCall_sub"
        /\ args[1] = fn(<<param("x", fn(<<param("x", FooBar)>>, number))>>, number)
        /\ args[2] = <<fn(<<param("x", Foo)>>, number)>>)
       => result = Ret(number)
    /\ (/\ op = "typecheckCall_sub"
        /\ args[1] = fn(<<param("x", fn(<<param("x", Foo)>>, number))>>, number)
        /\ args[2] = <<fn(<<param("x", FooBar)>>, number)>>)
       => result = Throw("argument type mismatch")
    /\ (/\ op = "typecheckCall_sub"
        /\ args[1] = fn(<<param("x", fn(<<>>, FooBar))>>, number)
        /\ args[2] = <<fn(<<>>, FooBarBaz)>>)
       => result = Ret(number)

\* A function taking {foo} passed where a function taking {foo, bar} is
\* expected, and accepted.
C13_Witness ==
    /\ op = "typecheckCall_sub"
    /\ args[1] = fn(<<param("x", fn(<<param("x", FooBar)>>, number))>>, number)
    /\ args[2] = <<fn(<<param("x", Foo)>>, number)>>
    /\ result = Ret(number)

\* ------------------------------------------------------------------ properties of the type checkers

\* C14: when typecheck checks a call, each argument type is compared with the
\* declared parameter type by subtyping: a call whose argument type is a
\* subtype of the parameter type returns the return type of the function, as
\* does passing {foo: 1, bar: true} to a parameter of type {foo: number}.
C14_ArgumentsBySubtyping ==
    op = "typecheck_rec" =>
       /\ args[1] = SubtypeArgumentCall => result = Ret(number)
       /\ (args[1].tag = "call" /\ Len(args[1].args) = 1) =>
             LET func == typecheck_rec(args[1].func, args[2]).res
                 arg == typecheck_rec(args[1].args[1], args[2]).res
             IN  (/\ IsRet(func)
                  /\ IsRet(arg)
                  /\ func.ret.tag = "Func"
                  /\ Len(func.ret.params) = 1
                  /\ ~HasTag(func.ret, {"Rec"})
                  /\ ~HasTag(arg.ret, {"Rec"})
                  /\ subtype(arg.ret, func.ret.params[1].type))
                 => result = Ret(func.ret.retType)

\* The type of a subterm of the term checked, by the checker that was called,
\* in the environment typeEnv.
CheckedIn(t, typeEnv) ==
    CASE op = "typecheck_rec" -> typecheck_rec(t, typeEnv).res
      [] op = "typecheck_recFunc" -> typecheck_recFunc(t, typeEnv).res
      [] op = "typecheck_basic" -> typecheck_basic(t, typeEnv).res
      [] op = "typecheck_basic2" -> typecheck_basic2(t, typeEnv).res
      [] op = "typecheck_poly" -> typecheck_poly(t, typeEnv, args[3]).res
      [] op = "typecheck_arith" -> typecheck_arith(t)

\* Structural equivalence of two types, as the checker that was called
\* decides it.
Equivalent(type1, type2) ==
    CASE op = "typecheck_rec" -> typeEq_rec(type1, type2)
      [] op = "typecheck_recFunc" -> Ret(typeEq_recFunc(type1, type2))
      [] op = "typecheck_poly" -> typeEq_poly(type1, type2, args[3])

\* C15: type-checking `if` fails with 'branches must have the same type'
\* whenever the types of the two branches are not structurally equivalent, and
\* returns the type of the then-branch when they are.
C15_BranchesEquivalent ==
    (op \in {"typecheck_rec", "typecheck_poly"} /\ args[1].tag = "if") =>
       LET cond == CheckedIn(args[1].cond, args[2])
           then == CheckedIn(args[1].thn, args[2])
           elseTerm == CheckedIn(args[1].els, args[2])
       IN  (IsRet(cond) /\ IsRet(then) /\ IsRet(elseTerm)) =>
              LET e == Equivalent(then.ret, elseTerm.ret)
              IN  /\ e = Ret(TRUE) => result = then
                  /\ e = Ret(FALSE) => result = Throw("branches must have the same type")

\* C16: in the recFunc checker and in the rec checker, a function term whose
\* declared return type is not equivalent to the type of its body fails with
\* 'wrong return type'.
C16_ReturnTypeEnforced ==
    (/\ op \in {"typecheck_recFunc", "typecheck_rec"}
     /\ args[1].tag = "func"
     /\ args[1].retType # undefined) =>
       LET body == CheckedIn(args[1].body, bindParams(args[2], args[1].params, 1))
       IN  (IsRet(body) /\ Equivalent(args[1].retType, body.ret) = Ret(FALSE))
              => result = Throw("wrong return type")

\* C17: in the arith checker the condition of an `if` may have any type: when
\* the condition and the two branches type-check and the branches have the
\* same type, typecheck returns the type of the branches; a condition that
\* fails to type-check raises its own error.
C17_AnyConditionType ==
    (op = "typecheck_arith" /\ args[1].tag = "if") =>
       LET cond == typecheck_arith(args[1].cond)
           then == typecheck_arith(args[1].thn)
           elseTerm == typecheck_arith(args[1].els)
       IN  /\ IsThrow(cond) => result = cond
           /\ (IsRet(cond) /\ IsRet(then) /\ IsRet(elseTerm) /\ then = elseTerm)
                 => result = then

\* C18 as stated: typeEqRec and typeEqNaive throw 'unknown type variable'
\* exactly when both arguments are TypeVar and the binding map has no entry
\* for the name of the first; for every other pair they return a boolean.
C18_ThrowsExactlyForTypeVarPair ==
    op \in {"typeEqRec", "typeEqNaive"} =>
       IF /\ args[1].tag = "TypeVar"
          /\ args[2].tag = "TypeVar"
          /\ args[1].name \notin DOMAIN args[3]
       THEN result = Throw("unknown type variable")
       ELSE IsRet(result)

\* C18: typeEqRec and typeEqNaive throw nothing but 'unknown type variable',
\* and only when the first argument has a free type variable without an
\* entry in the binding map and the second argument holds a TypeVar; called
\* with two TypeVar they throw exactly when the map has no entry for the name
\* of the first; called with two types of different variants they return
\* false.
C18_ThrowsOnlyForUnboundTypeVar ==
    op \in {"typeEqRec", "typeEqNaive"} =>
       /\ IsThrow(result) =>
             /\ result = Throw("unknown type variable")
             /\ ~(FreeVars(args[1]) \subseteq DOMAIN args[3])
             /\ HasTag(args[2], {"TypeVar"})
       /\ (args[1].tag = "TypeVar" /\ args[2].tag = "TypeVar") =>
             (IsThrow(result) <=> args[1].name \notin DOMAIN args[3])
       /\ args[1].tag # args[2].tag => result = Ret(FALSE)

\* Two function types whose parameters are the unbound T: the comparison
\* throws although neither argument is a TypeVar.
C18_Witness ==
    /\ op \in {"typeEqRec", "typeEqNaive"}
    /\ args[1].tag = "Func"
    /\ args[2].tag = "Func"
    /\ result = Throw("unknown type variable")

\* C19: the Object type that typecheck returns for an object literal never
\* contains two props with the same name.
C19_UniquePropNames ==
    (op = "typecheck_rec" /\ args[1].tag = "objectNew" /\ IsRet(result)) =>
       /\ result.ret.tag = "Object"
       /\ \A i, j \in DOMAIN result.ret.props :
             result.ret.props[i].name = result.ret.props[j].name => i = j

\* The checkers that take a variable-type environment.
EnvCheckers ==
    {"typecheck_basic", "typecheck_basic2", "typecheck_recFunc", "typecheck_rec",
     "typecheck_poly"}

\* No const2 anywhere in the term t of basic2.
RECURSIVE Const2Free(_)
Const2Free(t) ==
    CASE t.tag = "const2" -> FALSE
      [] t.tag = "add" -> Const2Free(t.left) /\ Const2Free(t.right)
      [] t.tag = "if" -> Const2Free(t.cond) /\ Const2Free(t.thn) /\ Const2Free(t.els)
      [] t.tag = "func" -> Const2Free(t.body)
      [] t.tag = "call" ->
            Const2Free(t.func) /\ \A i \in DOMAIN t.args : Const2Free(t.args[i])
      [] t.tag = "seq2" -> \A i \in DOMAIN t.body : Const2Free(t.body[i])
      [] OTHER -> TRUE

\* C20 as stated: after typecheck(t, env) returns or throws, the env object of
\* the caller holds exactly the bindings it held before the call, in every
\* checker.
C20_EnvNeverMutated ==
    op \in EnvCheckers => env = args[2]

\* C20: after typecheck(t, env) returns or throws, the env object of the
\* caller holds exactly the bindings it held before the call in the basic,
\* recFunc, rec and poly checkers, and in basic2 when t is a seq2, a func or
\* a term without const2; typecheck of a const2 term of basic2 (its init
\* without const2) that returns has added to the env object of the caller the
\* binding of its name to the type returned.
C20_OnlyConst2Mutates ==
    /\ op \in EnvCheckers \ {"typecheck_basic2"} => env = args[2]
    /\ op = "typecheck_basic2" =>
          /\ (args[1].tag \in {"seq2", "func"} \/ Const2Free(args[1])) => env = args[2]
          /\ (args[1].tag = "const2" /\ Const2Free(args[1].init) /\ IsRet(result)) =>
                env = MapPut(args[2], args[1].name, result.ret)

\* const y = 42 checked by basic2 in an environment without y: the caller's
\* object holds y afterwards.
C20_Witness ==
    /\ op = "typecheck_basic2"
    /\ args[1] = TmConst2("y", TmNumber)
    /\ "y" \notin DOMAIN args[2]
    /\ result = Ret(number)
    /\ "y" \in DOMAIN env

\* C21: in the recFunc checker a variable reference has the type of the most
\* recent preceding definition of its name: `const x = i; x` has the type of
\* i whatever the environment held for x, `const x = i; const x = j; x` has
\* the type of j, and a reference to a name without a binding fails with
\* 'Unknown variable'.
C21_LaterDefinitionWins ==
    op = "typecheck_recFunc" =>
       LET t == args[1]
       IN  /\ t.tag = "var" =>
                result = IF t.name \in DOMAIN args[2] THEN Ret(args[2][t.name])
                         ELSE Throw("Unknown variable")
           /\ (t.tag = "const" /\ t.rest = TmVar(t.name)) =>
                result = CheckedIn(t.init, args[2])
           /\ (/\ t.tag = "const"
               /\ t.rest.tag = "const"
               /\ t.rest.name = t.name
               /\ t.rest.rest = TmVar(t.name)
               /\ IsRet(CheckedIn(t.init, args[2]))) =>
                result = CheckedIn(t.rest.init,
                                   MapPut(args[2], t.name, CheckedIn(t.init, args[2]).ret))

\* const x = 42; const x = true; x has type Boolean, in an environment where
\* x was a Number already.
C21_Witness ==
    /\ op = "typecheck_recFunc"
    /\ args[1] = TmConst("x", TmNumber, TmConst("x", TmTrue, TmVar("x")))
    /\ args[2] = MapPut(EmptyMap, "x", number)
    /\ result = Ret(boolean)

\* C22: for a recFunc term with name f, parameters P and declared return
\* type R, in recFunc.ts and in rec.ts, the body is checked in the
\* environment of the caller extended with f : Func(P, R) and then with the
\* parameters, and when the body has the type R the term has the type of
\* `rest` in the environment of the caller extended with f : Func(P, R) only.
C22_RecFuncTyping ==
    (op \in {"typecheck_recFunc", "typecheck_rec"} /\ args[1].tag = "recFunc") =>
       LET t == args[1]
           funcType == fn(t.params, t.retType)
           outer == MapPut(args[2], t.funcName, funcType)
           inner == bindParams(outer, t.params, 1)
           body == CheckedIn(t.body, inner)
       IN  /\ IsThrow(body) => result = body
           /\ (IsRet(body) /\ Equivalent(t.retType, body.ret) = Ret(TRUE)) =>
                 result = CheckedIn(t.rest, outer)

\* function f(x: number): number { return f(x); } followed by x: the
\* self-call in the body type-checks and x is unknown in `rest`.
C22_Witness ==
    /\ op = "typecheck_recFunc"
    /\ args[1] = TmRecFunc("f", <<param("x", number)>>, number,
                           TmCall(TmVar("f"), <<TmVar("x")>>), TmVar("x"))
    /\ args[2] = EmptyMap
    /\ result = Throw("Unknown variable")

\* The list seen is a prefix of the list seen2.
IsPrefix(seen, seen2) ==
    /\ Len(seen) <= Len(seen2)
    /\ \A i \in DOMAIN seen : seen2[i] = seen[i]

\* C23: in every nested call made during a top-level typeEqSub(a, b, []),
\* the seen list passed has the seen list of the caller as a prefix, extended
\* by at most one pair, which is the pair (type1, type2) of the caller, one
\* of them a Rec.
C23_SeenAppendOnly ==
    op = "typeEq_rec" =>
       \A c \in typeEqSubCalls(args[1], args[2], <<>>, StackLimit) :
          /\ IsPrefix(c.caller, c.callee)
          /\ Len(c.callee) <= Len(c.caller) + 1
          /\ Len(c.callee) = Len(c.caller) + 1 =>
                /\ c.callee[Len(c.callee)] = <<c.type1, c.type2>>
                /\ "Rec" \in {c.type1.tag, c.type2.tag}

\* A comparison in which a call with two pairs in its seen list is made: a
\* Rec was unfolded by a call that had received a pair already.
C23_Witness ==
    /\ op = "typeEq_rec"
    /\ IsRet(result)
    /\ \E c \in typeEqSubCalls(args[1], args[2], <<>>, StackLimit) :
          Len(c.caller) = 1 /\ Len(c.callee) = 2

\* The type under the leading Rec binders of t.
RECURSIVE UnderBinders(_)
UnderBinders(t) == IF t.tag = "Rec" THEN UnderBinders(t.type) ELSE t

\* Every Rec of t has a body that is not, under further Rec binders, a bare
\* type variable.
RECURSIVE Contractive(_)
Contractive(t) ==
    CASE t.tag = "Rec" -> UnderBinders(t).tag # "TypeVar" /\ Contractive(t.type)
      [] t.tag = "Func" ->
            Contractive(t.retType) /\ \A i \in DOMAIN t.params : Contractive(t.params[i].type)
      [] t.tag = "Object" -> \A i \in DOMAIN t.props : Contractive(t.props[i].type)
      [] OTHER -> TRUE

\* The trees obtained by unfolding every Rec of a and of b agree down to
\* `depth`: same variants, same numbers of parameters, same sets of field
\* names, equal leaves.
RECURSIVE SameUnfolding(_, _, _)
SameUnfolding(a, b, depth) ==
    IF depth = 0 THEN TRUE
    ELSE LET ua == unwrapRecType(a, StackLimit).ret
             ub == unwrapRecType(b, StackLimit).ret
         IN  /\ ua.tag = ub.tag
             /\ ua.tag = "Func" =>
                   /\ Len(ua.params) = Len(ub.params)
                   /\ \A i \in DOMAIN ua.params :
                         SameUnfolding(ua.params[i].type, ub.params[i].type, depth - 1)
                   /\ SameUnfolding(ua.retType, ub.retType, depth - 1)
             /\ ua.tag = "Object" =>
                   /\ {ua.props[i].name : i \in DOMAIN ua.props}
                         = {ub.props[i].name : i \in DOMAIN ub.props}
                   /\ \A i \in DOMAIN ua.props, j \in DOMAIN ub.props :
                         ua.props[i].name = ub.props[j].name =>
                            SameUnfolding(ua.props[i].type, ub.props[j].type, depth - 1)

\* C24: for closed contractive types a and b, rec.ts typeEq(a, b) returns
\* true exactly when the unfoldings of a and b agree at every depth up to
\* UnfoldDepth.
C24_AgreesWithUnfoldings ==
    (op = "typeEq_rec" /\ Contractive(args[1]) /\ Contractive(args[2])) =>
       result = Ret(SameUnfolding(args[1], args[2], UnfoldDepth))

\* Rec X. () => X against Rec X. () => Number: the pair is pushed, both are
\* unfolded, and the return types differ.
C24_Witness ==
    /\ op = "typeEq_rec"
    /\ args[1] = rec("X", fn(<<>>, typeVar("X")))
    /\ args[2] = rec("X", fn(<<>>, number))
    /\ result = Ret(FALSE)

\* C25: expandType(t, v, r) returns a Rec node whose bound name is v
\* unchanged, at the top of t or nested in it, and otherwise substitutes into
\* its body; it leaves Boolean, Number and the type variables named
\* differently from v unchanged, and so every type in which v is not free.
C25_RebindingRespected ==
    op = "expandType" =>
       LET t == args[1]
           v == args[2]
           r == args[3]
       IN  /\ t.tag \in {"Boolean", "Number"} => result = Ret(t)
           /\ t.tag = "TypeVar" => result = Ret(IF t.name = v THEN r ELSE t)
           /\ (t.tag = "Rec" /\ t.name = v) => result = Ret(t)
           /\ (t.tag = "Rec" /\ t.name # v) =>
                 /\ result.ret.tag = "Rec"
                 /\ result.ret.name = t.name
                 /\ result.ret.type = expandType(t.type, v, r)
                 /\ (v \in FreeVars(t) /\ r # typeVar(v)) => result.ret.type # t.type
           /\ (t.tag = "Func" /\ t.retType.tag = "Rec" /\ t.retType.name = v) =>
                 result.ret.retType = t.retType
           /\ (t.tag = "Object" /\ t.props[1].type.tag = "Rec"
                  /\ t.props[1].type.name = v) =>
                 result.ret.props[1].type = t.props[1].type
           /\ v \notin FreeVars(t) => result = Ret(t)

\* Rec Y. Rec X. X with X replaced: the inner Rec binds X again and the type
\* is returned as it was.
C25_Witness ==
    /\ op = "expandType"
    /\ args[1] = rec("Y", rec("X", typeVar("X")))
    /\ args[2] = "X"
    /\ args[3] = number
    /\ result = Ret(args[1])

\* C26: for closed types a and b on which the comparison ends, typeEq(a, b)
\* of rec.ts returns a boolean: no call made during it reaches the TypeVar
\* case of typeEqSub ('unreachable'), and no call of hasSeen or typeEqNaive
\* made during it throws 'unknown type variable'.
C26_UnreachableNotReached ==
    (/\ op = "typeEq_rec"
     /\ Closed(args[1])
     /\ Closed(args[2])
     /\ result # Throw("RangeError")) =>
       /\ result # Throw("unreachable")
       /\ result # Throw("unknown type variable")
       /\ IsRet(result)

\* The stream type against itself: the pair is pushed, the comparison comes
\* back to it through `rest`, hasSeen compares the Rec types with typeEqNaive,
\* whose TypeVar case finds X bound, and true is returned.
C26_Witness ==
    /\ op = "typeEq_rec"
    /\ args[1] = NumStream
    /\ args[2] = NumStream
    /\ result = Ret(TRUE)

\* C27: when the typecheck of poly.ts processes a typeAbs term with type
\* parameters Ps under the scope list L, the body is checked under L followed
\* by Ps; after typecheck returns or throws the scope list of the caller is
\* still L, and the term that follows a typeAbs in a sequence is checked
\* under L.
C27_ScopeDiscipline ==
    op = "typecheck_poly" =>
       LET t == args[1]
           L == args[3]
       IN  /\ scopeList = L
           /\ t.tag = "typeAbs" =>
                 LET body == typecheck_poly(t.body, args[2], L \o t.typeParams).res
                 IN  result = IF IsThrow(body) THEN body
                              ELSE Ret(typeAbs(t.typeParams, body.ret))
           /\ (/\ t.tag = "seq"
               /\ t.body.tag = "typeAbs"
               /\ IsRet(typecheck_poly(t.body, args[2], L).res)) =>
                 result = typecheck_poly(t.rest, args[2], L).res

\* <T>(x: T) => x followed by f(x), with x: T and f: (x: T) => T, under the
\* empty scope list: T is not in scope when the argument of f is compared.
C27_Witness ==
    /\ op = "typecheck_poly"
    /\ args[1] = TmSeq(TmTypeAbs(<<"T">>, TmFunc(<<param("x", typeVar("T"))>>, undefined,
                                                 TmVar("x"))),
                       TmCall(TmVar("f"), <<TmVar("x")>>))
    /\ args[3] = <<>>
    /\ result = Throw("unknown type variable")
    /\ scopeList = <<>>

\* The type t with every type variable named params[i] replaced by
\* typeArgs[i], all at once; t holds no type abstraction.
RECURSIVE SubstituteAtOnce(_, _, _)
SubstituteAtOnce(t, params, typeArgs) ==
    CASE t.tag \in {"Boolean", "Number"} -> t
      [] t.tag = "TypeVar" ->
            IF \E i \in DOMAIN params : params[i] = t.name
            THEN typeArgs[CHOOSE i \in DOMAIN params : params[i] = t.name]
            ELSE t
      [] t.tag = "Func" ->
            fn([i \in DOMAIN t.params |->
                    param(t.params[i].name,
                          SubstituteAtOnce(t.params[i].type, params, typeArgs))],
               SubstituteAtOnce(t.retType, params, typeArgs))

\* C28: for a type abstraction with distinct parameters [p1..pn] applied to
\* the type arguments [a1..an], the typeApp rule of poly.ts returns the body
\* with every pi replaced by ai at once, also when some ai mentions a type
\* variable named like a later parameter.
C28_SimultaneousSubstitution ==
    (op = "typecheck_poly" /\ args[1].tag = "typeApp") =>
       LET bodyType == typecheck_poly(args[1].typeAbs, args[2], args[3]).res
       IN  (/\ IsRet(bodyType)
            /\ bodyType.ret.tag = "TypeAbs"
            /\ ~HasTag(bodyType.ret.type, {"TypeAbs"})
            /\ Len(bodyType.ret.typeParams) = Len(args[1].typeArgs)
            /\ \A i, j \in DOMAIN bodyType.ret.typeParams :
                  bodyType.ret.typeParams[i] = bodyType.ret.typeParams[j] => i = j) =>
              result = Ret(SubstituteAtOnce(bodyType.ret.type, bodyType.ret.typeParams,
                                            args[1].typeArgs))

\* The outcome of the elements i, i + 1, ... of a sequence, the first of them
\* checked in typeEnv and each later one in what the one before left: the
\* error of the first element that fails, else the type of the last.
RECURSIVE ElementsFrom(_, _, _)
ElementsFrom(body, typeEnv, i) ==
    LET r == typecheck_basic2(body[i], typeEnv)
    IN  IF IsThrow(r.res) \/ i = Len(body) THEN r.res
        ELSE ElementsFrom(body, r.typeEnv, i + 1)

\* C29: in basic2, typecheck of a seq2 fails with 'empty sequence' for an
\* empty body and otherwise returns the type of its last element, each
\* element checked with the names that the const2 of the earlier elements
\* defined and without those of the later ones; the environment passed by
\* the caller holds afterwards what it held before, also when a const2 is
\* nested in an `if` branch, an `add` operand or a call argument of an
\* element.
C29_SequenceScoping ==
    (op = "typecheck_basic2" /\ args[1].tag = "seq2") =>
       LET body == args[1].body
       IN  /\ env = args[2]
           /\ body = <<>> => result = Throw("empty sequence")
           /\ body # <<>> => result = ElementsFrom(body, args[2], 1)
           /\ \A n \in ParamNames, i \in {TmNumber, TmTrue} :
                 /\ body = <<TmConst2(n, i), TmVar(n)>> => result = CheckedIn(i, args[2])
                 /\ (body = <<TmVar(n), TmConst2(n, i)>> /\ n \notin DOMAIN args[2]) =>
                       result = Throw("Unknown variable")

\* { if (true) { const y = 42 } else { 42 }; y } checked in an environment
\* without y: y is visible to the second element and the caller's
\* environment is left without it.
C29_Witness ==
    /\ op = "typecheck_basic2"
    /\ args[1] = TmSeq2(<<TmIf(TmTrue, TmConst2("y", TmNumber), TmNumber), TmVar("y")>>)
    /\ "y" \notin DOMAIN args[2]
    /\ result = Ret(number)
    /\ env = args[2]

Injective(m) == \A a, b \in DOMAIN m : m[a] = m[b] => a = b
Inverse(m) == [v \in {m[k] : k \in DOMAIN m} |-> CHOOSE k \in DOMAIN m : m[k] = v]

\* The call that was made, with its two types exchanged, and for typeEqRec
\* with the inverse of the binding map.
Exchanged ==
    CASE op = "typeEq_rec" -> typeEq_rec(args[2], args[1])
      [] op = "typeEq_recFunc" -> Ret(typeEq_recFunc(args[2], args[1]))
      [] op = "typeEqRec" -> typeEqRec(args[2], args[1], Inverse(args[3]))

\* C30: typeEq(a, b) = typeEq(b, a) in recFunc.ts and in rec.ts, and
\* typeEqRec(a, b, m) = typeEqRec(b, a, m') in poly.ts for the inverse m' of
\* an injective map m, whenever both calls return.
C30_Symmetric ==
    (/\ op \in {"typeEq_rec", "typeEq_recFunc", "typeEqRec"}
     /\ op = "typeEqRec" => Injective(args[3])
     /\ IsRet(result)
     /\ IsRet(Exchanged)) =>
       result = Exchanged

\* Rec X. Number against Number: true in both orders, one order unfolding
\* the first type and the other the second.
C30_Witness ==
    /\ op = "typeEq_rec"
    /\ args[1] = rec("X", number)
    /\ args[2] = number
    /\ result = Ret(TRUE)
    /\ Exchanged = Ret(TRUE)

====
